---- MODULE Spec2Model ----
(***************************************************************************)
(* A model of photonpump's connection engine (src/photonpump/connection.py *)
(* and the older dispatcher of src/photonpump/connection2.py).             *)
(*                                                                         *)
(*   Spec        the Connector control loop, the MessageDispatcher and the *)
(*               per-connection PhotonPumpProtocol pumps, at frame level.  *)
(*   SpecReader  MessageReader.process at byte level, with the PaceMaker   *)
(*               it routes heartbeat frames to.                            *)
(*   SpecV2      connection2.py's MessageDispatcher._process_messages.     *)
(*                                                                         *)
(* photonpump.conversations, photonpump.messages and photonpump.discovery  *)
(* are not part of the sources at hand; what the engine needs of them      *)
(* (Conversation.start / respond_to / is_complete, the frame encoding,     *)
(* Discovery and DiscoveryRetryPolicy) is modelled from the specification. *)
(***************************************************************************)
EXTENDS Integers, Sequences, FiniteSets, TLC

\* ------------------------------------------------------------------ bounds
NumTracked == 2        \* conversations that expect a reply
NumOneWay == 1         \* one-way conversations
MaxConnections == 2    \* PhotonPumpProtocol objects the connector may create
MaxFrames == 2         \* inbound frames the server sends, all connections
MaxQueue == 3          \* cap on queue lengths for recurring producers
MaxCtrl == 2           \* cap on the control queue for heartbeat notifications
MaxHeartbeats == 3     \* heartbeat requests the pacemakers send, in all
NumNodes == 1          \* nodes discovery knows of
MaxRetries == 1        \* retries_per_node is drawn from 0..MaxRetries
MaxStreamFrames == 2   \* frames in the byte stream fed to the MessageReader
MaxInbound == 1        \* messages waiting on the inbound queue of connection2
MaxPayload == 1        \* payload bytes of a frame in that stream
MaxStops == 2          \* calls of the stopped observers

\* ------------------------------------------------------- program constants
SIZE_UINT_32 == 4
HEADER_LENGTH == 1 + 1 + 16
MESSAGE_MIN_SIZE == SIZE_UINT_32 + HEADER_LENGTH
HeartbeatFailureLimit == 3

Tracked == 1..NumTracked
OneWayConvs == (NumTracked + 1)..(NumTracked + NumOneWay)
Conversations == Tracked \cup OneWayConvs
Protocols == 1..MaxConnections
Nodes == 1..NumNodes
None == 0

\* PaceMaker.heartbeat_id of connection p (uuid4 per pacemaker), and the id
\* the server uses for its own heartbeat requests.
HeartbeatId(p) == 100 + p
ServerHeartbeatId == 200

VARIABLES
    \* Connector
    state, ctrl_queue, run_loop, heartbeat_failures, active_protocol,
    target_node, connection_counter, stop_task, put_tasks,
    \* the Connector's connected, disconnected and stopped observers
    connected_calls, disconnected_calls, stopped_calls,
    \* DiscoveryRetryPolicy and Discovery
    retries_per_node, failures, failed_nodes,
    \* PhotonPumpProtocol, per connection number
    sock, pumps, input_queue, output_queue, pacemaker,
    \* MessageDispatcher
    active_conversations, output, replay,
    \* Conversations
    started, is_complete, result, responses, start_log,
    \* the server side of the sockets
    frames_sent, heartbeats_sent,
    \* MessageReader (byte level)
    stream, fed, header_bytes, header_bytes_required, length, cmd, flags,
    conversation_id, message_offset, message_buffer, received, read_loop,
    \* connection2.MessageDispatcher
    v2_connected, v2_input, v2_output, v2_conversations, v2_result,
    v2_dispatch_loop, v2_complete

connectorVars == <<state, ctrl_queue, run_loop, heartbeat_failures,
                   active_protocol, target_node, connection_counter,
                   stop_task, put_tasks>>
observerVars == <<connected_calls, disconnected_calls, stopped_calls>>
policyVars == <<retries_per_node, failures, failed_nodes>>
protocolVars == <<sock, pumps, input_queue, output_queue, pacemaker>>
dispatcherVars == <<active_conversations, output, replay>>
conversationVars == <<started, is_complete, result, responses, start_log>>
readerVars == <<stream, fed, header_bytes, header_bytes_required, length, cmd,
                flags, conversation_id, message_offset, message_buffer,
                received, read_loop>>
v2Vars == <<v2_connected, v2_input, v2_output, v2_conversations, v2_result,
            v2_dispatch_loop, v2_complete>>

vars == <<connectorVars, observerVars, policyVars, protocolVars, dispatcherVars,
          conversationVars, frames_sent, heartbeats_sent, readerVars, v2Vars>>

\* ----------------------------------------------------------------- helpers
SeqToSet(s) == {s[i] : i \in 1..Len(s)}

RECURSIVE Remove(_, _)
Remove(s, x) ==
    IF s = <<>> THEN <<>>
    ELSE IF Head(s) = x THEN Remove(Tail(s), x)
    ELSE <<Head(s)>> \o Remove(Tail(s), x)

Count(s, x) == Cardinality({i \in 1..Len(s) : s[i] = x})

\* MessageDispatcher.write_to is a loop over active_conversations.values()
\* with an await in its body: `to` is the connection whose queue is being
\* written (None outside the loop), `size` the length of the map when the
\* iteration began and `done` the entries the loop has been through.
NoReplay == [to |-> None, size |-> 0, done |-> 0]

Instruction(command, data) == [command |-> command, data |-> data]

Frame(id, command) == [conversation_id |-> id, command |-> command]

\* ---------------------------------------------- Conversation (interface)
\* Conversation.start(output): the conversation's initial request frame is
\* put on the given outbound queue.
ConversationStart(c, p, oq) ==
    [oq EXCEPT ![p] = Append(@, Frame(c, "start"))]

\* Conversation.respond_to(message, output): a "final" message is answered
\* by a terminal reply, a "partial" one by a non-terminal reply that asks
\* the server for more on the connection's outbound queue. A "malformed"
\* message (unreadable payload, unexpected command) is a protocol error:
\* the conversation fails itself, which is terminal too, unless the error
\* escapes respond_to (DispatchPumpFails below).
ReplyIsTerminal(m) == m.command \in {"final", "malformed"}

ReplyResult(m) == IF m.command = "malformed" THEN "failed" ELSE "resolved"

RespondOutput(c, m, p, oq) ==
    IF ReplyIsTerminal(m) THEN oq
    ELSE [oq EXCEPT ![p] = Append(@, Frame(c, "next"))]

\* ------------------------------------------- DiscoveryRetryPolicy, Discovery
should_retry(node, fails) == fails[node] <= retries_per_node

\* The counter saturates one above retries_per_node, where should_retry
\* has already turned false.
record_failure(node, fails) ==
    IF node = None THEN fails
    ELSE [fails EXCEPT ![node] =
            IF @ > retries_per_node THEN @ ELSE @ + 1]

record_success(node, fails) ==
    IF node = None THEN fails ELSE [fails EXCEPT ![node] = 0]

\* ------------------------------------------------------ MessageDispatcher
InMap(c) == c \in SeqToSet(active_conversations)

\* self.active_conversations[id] = (conversation, None): a dict keeps the
\* position of a key it already holds.
MapInsert(convs, c) ==
    IF c \in SeqToSet(convs) THEN convs ELSE Append(convs, c)

\* A start_conversation that tracks every conversation.
StartInsertsAlways(c) == TRUE

\* if not conversation.one_way
StartInserts(c) == c \notin OneWayConvs

start_conversation(c) ==
    /\ c \in Conversations \ started
    /\ started' = started \cup {c}
    /\ active_conversations' =
          IF StartInserts(c) THEN MapInsert(active_conversations, c)
          ELSE active_conversations
    /\ IF output # None
       THEN /\ output_queue' = ConversationStart(c, output, output_queue)
            /\ start_log' = [start_log EXCEPT ![c] = @ \cup {output}]
       ELSE UNCHANGED <<output_queue, start_log>>
    /\ UNCHANGED <<observerVars, connectorVars,
                   policyVars, sock, pumps, input_queue,
                   pacemaker, output, replay, is_complete, result, responses,
                   frames_sent, heartbeats_sent, readerVars, v2Vars>>

\* A replay that skips the conversation inserted first.
ReplaySkipsOldest(convs, p, oq) ==
    IF convs = <<>> THEN oq
    ELSE [oq EXCEPT ![p] =
            @ \o [i \in 1..(Len(convs) - 1) |-> Frame(convs[i + 1], "start")]]

RECURSIVE Replay(_, _, _)
Replay(convs, p, oq) ==
    IF convs = <<>> THEN oq
    ELSE Replay(Tail(convs), p, ConversationStart(Head(convs), p, oq))

\* MessageDispatcher.write_to(output): the queues after the replay.
write_to(p, oq) == Replay(active_conversations, p, oq)

\* A lookup that falls back on the oldest tracked conversation.
LookupWithFallback(id) ==
    IF InMap(id) THEN id
    ELSE IF active_conversations # <<>> THEN Head(active_conversations)
    ELSE None

\* self.active_conversations.get(message.conversation_id, (None, None))
Lookup(id) == IF InMap(id) THEN id ELSE None

\* if conversation.is_complete
DispatchRemoves(c, complete) == complete[c]

\* A dispatch pump that takes the newest message of its inbound queue.
dispatchNewestFirst(p) ==
    LET m == input_queue[p][Len(input_queue[p])]
        c == Lookup(m.conversation_id)
        complete == [is_complete EXCEPT ![c] = ReplyIsTerminal(m)]
    IN  /\ input_queue' = [input_queue EXCEPT ![p] =
              SubSeq(@, 1, Len(@) - 1)]
        /\ IF c = None
           THEN UNCHANGED <<active_conversations, output_queue, is_complete,
                            result, responses>>
           ELSE /\ responses' = [responses EXCEPT ![c] = @ + 1]
                /\ is_complete' = complete
                /\ result' = [result EXCEPT ![c] = ReplyResult(m)]
                /\ output_queue' = RespondOutput(c, m, p, output_queue)
                /\ active_conversations' =
                      IF DispatchRemoves(c, complete)
                      THEN Remove(active_conversations, c)
                      ELSE active_conversations

\* MessageDispatcher.dispatch(message, output), run by the dispatch pump of
\* connection p for the message at the head of its inbound queue.
dispatch(p) ==
    LET m == Head(input_queue[p])
        c == Lookup(m.conversation_id)
        complete == [is_complete EXCEPT ![c] = ReplyIsTerminal(m)]
    IN  /\ input_queue' = [input_queue EXCEPT ![p] = Tail(@)]
        /\ IF c = None
           THEN UNCHANGED <<active_conversations, output_queue, is_complete,
                            result, responses>>
           ELSE /\ responses' = [responses EXCEPT ![c] = @ + 1]
                /\ is_complete' = complete
                /\ result' = [result EXCEPT ![c] = ReplyResult(m)]
                /\ output_queue' = RespondOutput(c, m, p, output_queue)
                /\ active_conversations' =
                      IF DispatchRemoves(c, complete)
                      THEN Remove(active_conversations, c)
                      ELSE active_conversations

\* ------------------------------------------------------ PhotonPumpProtocol
AllPumps(status) ==
    [read |-> status, write |-> status, dispatch |-> status,
     heartbeat |-> status]

\* Task.cancel() on a task that has not ended yet (a write pump waiting in
\* drain() has status "draining"); on one that has, it does nothing.
Cancelled(status) ==
    IF status \in {"running", "draining"} THEN "cancelled" ELSE status

Ended(p, pm) ==
    \A k \in DOMAIN pm[p] : pm[p][k] \notin {"running", "draining"}

\* PhotonPumpProtocol.stop(): the four pumps are cancelled and awaited,
\* then the socket is closed; closing an open socket makes the event loop
\* call connection_lost(None) later.
StoppedPumps(p, pm) ==
    [pm EXCEPT ![p] = [read |-> Cancelled(@.read),
                       write |-> Cancelled(@.write),
                       dispatch |-> Cancelled(@.dispatch),
                       heartbeat |-> Cancelled(@.heartbeat)]]

StoppedSock(p, sk) ==
    [sk EXCEPT ![p] = IF @ = "open" THEN "closing" ELSE @]

\* respond_to sets the result of its conversation; a result handle that
\* the caller has cancelled refuses that (InvalidStateError).
ResultRefuses(m) ==
    /\ InMap(m.conversation_id)
    /\ result[m.conversation_id] = "cancelled"

\* PhotonPumpProtocol.dispatch: one turn of the dispatch pump.
DispatchPump(p) ==
    /\ pumps[p].dispatch = "running"
    /\ input_queue[p] # <<>>
    /\ ~ResultRefuses(Head(input_queue[p]))
    /\ Len(output_queue[p]) < MaxQueue
    /\ dispatch(p)
    /\ UNCHANGED <<observerVars, connectorVars,
                   policyVars, sock, pumps, pacemaker, output, replay,
                   started, start_log, frames_sent, heartbeats_sent,
                   readerVars, v2Vars>>

\* A write pump whose error handler fails the conversations of the frames
\* it could not write.
WriteFailsSurfaces(p) ==
    /\ pumps[p].write = "running"
    /\ sock[p] = "open"
    /\ output_queue[p] # <<>>
    /\ output_queue' = [output_queue EXCEPT ![p] = <<>>]
    /\ sock' = [sock EXCEPT ![p] = "broken"]
    /\ result' = [c \in Conversations |->
          IF \E i \in DOMAIN output_queue[p] :
                output_queue[p][i].conversation_id = c
          THEN "failed" ELSE result[c]]
    /\ UNCHANGED <<observerVars, connectorVars, policyVars, pumps,
                   input_queue, pacemaker, dispatcherVars, started,
                   is_complete, responses, start_log,
                   frames_sent, heartbeats_sent, readerVars, v2Vars>>

\* The caller cancels the result handle that start_conversation returned
\* (the future conversation.result). Nothing is registered on that future
\* and nothing calls MessageDispatcher.remove, so only the result changes.
CancelResult(c) ==
    /\ c \in started
    /\ result[c] = "pending"
    /\ result' = [result EXCEPT ![c] = "cancelled"]
    /\ UNCHANGED <<observerVars, connectorVars, policyVars, protocolVars,
                   dispatcherVars, started, is_complete, responses,
                   start_log, frames_sent, heartbeats_sent, readerVars,
                   v2Vars>>

\* MessageWriter.start when the socket refuses the bytes: writer.write and
\* writer.drain are each wrapped in `except Exception` that only logs, so
\* the frames taken from the queue are gone and the pump goes on with the
\* next one. The transport has noted the error and will report it.
WriteFails(p) ==
    /\ pumps[p].write = "running"
    /\ sock[p] = "open"
    /\ output_queue[p] # <<>>
    /\ output_queue' = [output_queue EXCEPT ![p] = <<>>]
    /\ sock' = [sock EXCEPT ![p] = "broken"]
    /\ UNCHANGED <<observerVars, connectorVars, policyVars, pumps,
                   input_queue, pacemaker, dispatcherVars, conversationVars,
                   frames_sent, heartbeats_sent, readerVars, v2Vars>>

\* PhotonPumpProtocol.dispatch when dispatcher.dispatch raises (an error
\* that escapes respond_to): the bare `except` logs "Dispatch loop failed"
\* and breaks out of the loop. The message is gone, the conversation stays
\* in the map as it was, and the dispatch pump of the connection has ended.
DispatchPumpFails(p) ==
    /\ pumps[p].dispatch = "running"
    /\ input_queue[p] # <<>>
    /\ \/ /\ Head(input_queue[p]).command = "malformed"
          /\ InMap(Head(input_queue[p]).conversation_id)
       \/ ResultRefuses(Head(input_queue[p]))
    /\ input_queue' = [input_queue EXCEPT ![p] = Tail(@)]
    /\ pumps' = [pumps EXCEPT ![p].dispatch = "failed"]
    /\ UNCHANGED <<observerVars, connectorVars, policyVars, sock,
                   output_queue, pacemaker, dispatcherVars, conversationVars,
                   frames_sent, heartbeats_sent, readerVars, v2Vars>>

\* What the four cancel() calls of PhotonPumpProtocol.stop() can leave. A
\* pump waiting on its queue gets CancelledError outside any handler and
\* ends. The write pump waiting in drain() gets it inside
\* `try: await self.writer.drain() / except Exception`: where CancelledError
\* derives from BaseException it ends as well, where it derives from
\* Exception (asyncio before Python 3.8) it is caught and logged, and the
\* pump goes back to waiting on its queue, not cancelled.
CancelOutcomes(p, pm) ==
    {StoppedPumps(p, pm)}
        \cup (IF pm[p].write = "draining"
              THEN {[StoppedPumps(p, pm) EXCEPT ![p].write = "running"]}
              ELSE {})

\* MessageWriter.start with the transport's buffer over its limit: the pump
\* writes the next message and waits in drain() ...
WriteBlocks(p) ==
    /\ pumps[p].write = "running"
    /\ sock[p] = "open"
    /\ output_queue[p] # <<>>
    /\ output_queue' = [output_queue EXCEPT ![p] = Tail(@)]
    /\ pumps' = [pumps EXCEPT ![p].write = "draining"]
    /\ UNCHANGED <<observerVars, connectorVars, policyVars, sock,
                   input_queue, pacemaker, dispatcherVars, conversationVars,
                   frames_sent, heartbeats_sent, readerVars, v2Vars>>

\* ... until the transport resumes writing (or loses the connection: the
\* waiter gets an error, which the pump logs).
DrainResumes(p) ==
    /\ pumps[p].write = "draining"
    /\ pumps' = [pumps EXCEPT ![p].write = "running"]
    /\ UNCHANGED <<observerVars, connectorVars, policyVars, sock,
                   input_queue, output_queue, pacemaker, dispatcherVars,
                   conversationVars, frames_sent, heartbeats_sent,
                   readerVars, v2Vars>>

\* MessageWriter.start: the write pump wakes up. Queue.get() does not
\* suspend while the queue holds a message, nor does drain() while the
\* transport takes the bytes, so the loop runs until the queue is empty.
WritePump(p) ==
    /\ pumps[p].write = "running"
    /\ output_queue[p] # <<>>
    /\ output_queue' = [output_queue EXCEPT ![p] = <<>>]
    /\ UNCHANGED <<observerVars, connectorVars,
                   policyVars, sock, pumps, input_queue,
                   pacemaker, dispatcherVars, conversationVars, frames_sent,
                   heartbeats_sent, readerVars, v2Vars>>

\* MessageReader.start/process at frame level: the server sends one frame
\* on connection p and the read pump routes it.
ConversationMessages ==
    {Frame(c, k) : c \in Conversations, k \in {"partial", "final"}}

HeartbeatMessages(p) ==
    {Frame(ServerHeartbeatId, "HeartbeatRequest"),
     Frame(HeartbeatId(p), "HeartbeatResponse")}

Receive(p, m) ==
    /\ sock[p] = "open"
    /\ pumps[p].read = "running"
    /\ frames_sent < MaxFrames
    /\ frames_sent' = frames_sent + 1
    /\ CASE m.command = "HeartbeatRequest" ->
              \* PaceMaker.handle_request
              /\ Len(output_queue[p]) < MaxQueue
              /\ output_queue' = [output_queue EXCEPT ![p] =
                    Append(@, Frame(m.conversation_id, "HeartbeatResponse"))]
              /\ UNCHANGED <<input_queue, pacemaker, pumps>>
         [] m.command = "HeartbeatResponse" ->
              \* PaceMaker.handle_response: Future.set_result raises
              \* InvalidStateError on a future that is done or cancelled,
              \* and the read pump re-raises it.
              /\ IF m.conversation_id # HeartbeatId(p)
                    \/ pacemaker[p].fut = "none"
                 THEN UNCHANGED <<pacemaker, pumps>>
                 ELSE IF pacemaker[p].fut = "pending"
                 THEN /\ pacemaker' = [pacemaker EXCEPT ![p].fut = "done"]
                      /\ UNCHANGED pumps
                 ELSE /\ pumps' = [pumps EXCEPT ![p].read = "failed"]
                      /\ UNCHANGED pacemaker
              /\ UNCHANGED <<input_queue, output_queue>>
         [] OTHER ->
              /\ Len(input_queue[p]) < MaxQueue
              /\ input_queue' = [input_queue EXCEPT ![p] = Append(@, m)]
              /\ UNCHANGED <<output_queue, pacemaker, pumps>>
    /\ UNCHANGED <<observerVars, connectorVars,
                   policyVars, sock, dispatcherVars,
                   conversationVars, heartbeats_sent, readerVars, v2Vars>>

\* PhotonPumpProtocol.connection_made: queues, pacemaker and the four pumps
\* of connection p come to life.
ConnectionMade(p) ==
    /\ sock' = [sock EXCEPT ![p] = "open"]
    /\ pumps' = [pumps EXCEPT ![p] = AllPumps("running")]

\* The peer drops the connection, gracefully (exn = 0) or not (exn = 1):
\* PhotonPumpProtocol.connection_lost -> Connector.connection_lost.
ConnectionLostCommand(exn) ==
    IF exn # 0 THEN "HandleConnectionFailed" ELSE "HandleConnectionClosed"

connection_lost(p, exn) ==
    /\ failures' = record_failure(target_node, failures)
    /\ ctrl_queue' =
          Append(ctrl_queue, Instruction(ConnectionLostCommand(exn), exn))
    /\ sock' = [sock EXCEPT ![p] = "lost"]
    /\ UNCHANGED <<observerVars, stop_task, put_tasks,
                   state, run_loop, heartbeat_failures, active_protocol,
                   target_node, connection_counter, retries_per_node,
                   failed_nodes, pumps, input_queue, output_queue, pacemaker,
                   dispatcherVars, conversationVars, frames_sent,
                   heartbeats_sent, readerVars, v2Vars>>

PeerDrop(p, exn) ==
    /\ sock[p] = "open"
    /\ connection_lost(p, exn)

\* The transport of a socket that failed on write calls
\* PhotonPumpProtocol.connection_lost(exn) with the error.
TransportFails(p) ==
    /\ sock[p] = "broken"
    /\ connection_lost(p, 1)

\* transport.close() of PhotonPumpProtocol.stop takes effect.
SocketClosed(p) ==
    /\ sock[p] = "closing"
    /\ connection_lost(p, 0)

\* ------------------------------------------------------------- PaceMaker
\* A pacemaker that sends the next request while the last one is still
\* awaited.
SendHeartbeatOverlaps(p) ==
    /\ pumps[p].heartbeat = "running"
    /\ Len(output_queue[p]) < MaxQueue
    /\ heartbeats_sent < MaxHeartbeats
    /\ heartbeats_sent' = heartbeats_sent + 1
    /\ output_queue' = [output_queue EXCEPT ![p] =
          Append(@, Frame(HeartbeatId(p), "HeartbeatRequest"))]
    /\ pacemaker' = [pacemaker EXCEPT ![p] =
          [fut |-> "pending", waiting |-> TRUE]]
    /\ UNCHANGED <<observerVars, connectorVars,
                   policyVars, sock, pumps, input_queue,
                   dispatcherVars, conversationVars, frames_sent, readerVars,
                   v2Vars>>

\* send_heartbeat: the request goes on the outbound queue and a fresh
\* future waits for the response.
SendHeartbeat(p) ==
    /\ pumps[p].heartbeat = "running"
    /\ ~pacemaker[p].waiting
    /\ Len(output_queue[p]) < MaxQueue
    /\ heartbeats_sent < MaxHeartbeats
    /\ heartbeats_sent' = heartbeats_sent + 1
    /\ output_queue' = [output_queue EXCEPT ![p] =
          Append(@, Frame(HeartbeatId(p), "HeartbeatRequest"))]
    /\ pacemaker' = [pacemaker EXCEPT ![p] =
          [fut |-> "pending", waiting |-> TRUE]]
    /\ UNCHANGED <<observerVars, connectorVars,
                   policyVars, sock, pumps, input_queue,
                   dispatcherVars, conversationVars, frames_sent, readerVars,
                   v2Vars>>

\* await_heartbeat_response, the response came: Connector.heartbeat_received.
HeartbeatReceived(p) ==
    /\ pumps[p].heartbeat = "running"
    /\ pacemaker[p].waiting
    /\ pacemaker[p].fut = "done"
    /\ Len(ctrl_queue) < MaxCtrl
    /\ failures' = record_success(target_node, failures)
    /\ ctrl_queue' = Append(ctrl_queue,
          Instruction("HandleHeartbeatSuccess", HeartbeatId(p)))
    /\ pacemaker' = [pacemaker EXCEPT ![p].waiting = FALSE]
    /\ UNCHANGED <<observerVars, stop_task, put_tasks,
                   state, run_loop, heartbeat_failures, active_protocol,
                   target_node, connection_counter, retries_per_node,
                   failed_nodes, sock, pumps, input_queue, output_queue,
                   dispatcherVars, conversationVars, frames_sent,
                   heartbeats_sent, readerVars, v2Vars>>

\* await_heartbeat_response, response_timeout passed: wait_for cancels the
\* future and Connector.heartbeat_failed is called.
HeartbeatTimeout(p) ==
    /\ pumps[p].heartbeat = "running"
    /\ pacemaker[p].waiting
    /\ pacemaker[p].fut = "pending"
    /\ Len(ctrl_queue) < MaxCtrl
    \* the timeout error is labelled with the connection that timed out;
    \* no handler reads the label
    /\ ctrl_queue' = Append(ctrl_queue, Instruction("HandleHeartbeatFailed", p))
    /\ pacemaker' = [pacemaker EXCEPT ![p] =
          [fut |-> "cancelled", waiting |-> FALSE]]
    /\ UNCHANGED <<observerVars, stop_task, put_tasks,
                   state, run_loop, heartbeat_failures, active_protocol,
                   target_node, connection_counter, policyVars, sock, pumps,
                   input_queue, output_queue, dispatcherVars, conversationVars,
                   frames_sent, heartbeats_sent, readerVars, v2Vars>>

\* ------------------------------------------------- Connector._put_msg
\* The callbacks of the transport and of the pacemaker hand their
\* instruction to _put_msg, which wraps ctrl_queue.put(msg) in a task of
\* its own (ensure_future): the instruction is on the control queue only
\* once that task has run. connection_lost, HeartbeatReceived and
\* HeartbeatTimeout above take the task to run before anything else does;
\* the three actions below keep the two steps apart. `ahead` marks the
\* tasks that the event loop runs before the control loop, which a put on
\* its empty queue has woken.
PutTask(msg) == [msg |-> msg, ahead |-> FALSE]

ConnectionLostScheduled(p, exn) ==
    /\ sock[p] = "open"
    /\ Len(put_tasks) < MaxCtrl
    /\ failures' = record_failure(target_node, failures)
    /\ put_tasks' =
          Append(put_tasks,
                 PutTask(Instruction(ConnectionLostCommand(exn), exn)))
    /\ sock' = [sock EXCEPT ![p] = "lost"]
    /\ UNCHANGED <<observerVars, stop_task, ctrl_queue,
                   state, run_loop, heartbeat_failures, active_protocol,
                   target_node, connection_counter, retries_per_node,
                   failed_nodes, pumps, input_queue, output_queue, pacemaker,
                   dispatcherVars, conversationVars, frames_sent,
                   heartbeats_sent, readerVars, v2Vars>>

HeartbeatFailedScheduled(p) ==
    /\ pumps[p].heartbeat = "running"
    /\ pacemaker[p].waiting
    /\ pacemaker[p].fut = "pending"
    /\ Len(put_tasks) < MaxCtrl
    /\ put_tasks' =
          Append(put_tasks, PutTask(Instruction("HandleHeartbeatFailed", p)))
    /\ pacemaker' = [pacemaker EXCEPT ![p] =
          [fut |-> "cancelled", waiting |-> FALSE]]
    /\ UNCHANGED <<observerVars, stop_task, ctrl_queue,
                   state, run_loop, heartbeat_failures, active_protocol,
                   target_node, connection_counter, policyVars, sock, pumps,
                   input_queue, output_queue, dispatcherVars, conversationVars,
                   frames_sent, heartbeats_sent, readerVars, v2Vars>>

\* The oldest task of _put_msg runs: ctrl_queue.put(msg).
PutTaskRuns ==
    /\ put_tasks # <<>>
    /\ ctrl_queue' = Append(ctrl_queue, Head(put_tasks).msg)
    /\ put_tasks' =
          IF ctrl_queue = <<>> /\ run_loop = "running"
          THEN [i \in 1..(Len(put_tasks) - 1) |->
                  [put_tasks[i + 1] EXCEPT !.ahead = TRUE]]
          ELSE Tail(put_tasks)
    /\ UNCHANGED <<observerVars, stop_task, state, run_loop,
                   heartbeat_failures, active_protocol, target_node,
                   connection_counter, policyVars, protocolVars,
                   dispatcherVars, conversationVars, frames_sent,
                   heartbeats_sent, readerVars, v2Vars>>

\* -------------------------------------------------------------- Connector
\* Connector.start(target): the state is set and Connect is queued.
\* Client.connect() calls it with no target.
ClientConnect ==
    /\ state = "Unset"
    /\ state' = "Connecting"
    /\ ctrl_queue' = Append(ctrl_queue, Instruction("Connect", None))
    /\ UNCHANGED <<observerVars, stop_task, put_tasks,
                   run_loop, heartbeat_failures, active_protocol, target_node,
                   connection_counter, policyVars, protocolVars,
                   dispatcherVars, conversationVars, frames_sent,
                   heartbeats_sent, readerVars, v2Vars>>

\* Connector._run: the control loop takes the next instruction off the
\* control queue; the handlers below are its branches. A loop that was
\* waiting on the empty queue runs after the put tasks scheduled before it
\* was woken.
Handling(command) ==
    /\ run_loop = "running"
    /\ ctrl_queue # <<>>
    /\ Head(ctrl_queue).command = command
    /\ \A i \in DOMAIN put_tasks : ~put_tasks[i].ahead

\* A handler that waits (for a connection, for the retry delay) before it
\* puts its instruction lets every scheduled put task run first.
Suspends(waits) == waits => put_tasks = <<>>

\* A reconnect that dials the last node again whatever the policy says.
ReconnectTargetAlwaysRedials(node, fails) == node

\* Connector._reconnect(node): the Connect instruction that start() queues,
\* and the nodes marked failed after it.
ReconnectTarget(node, fails) ==
    IF node # None /\ should_retry(node, fails) THEN node ELSE None

ReconnectMarks(node, fails) ==
    IF node # None /\ ~should_retry(node, fails)
    THEN failed_nodes \cup {node} ELSE failed_nodes

\* Connector._attempt_connect(node)
OnConnect(node) ==
    /\ Handling("Connect")
    /\ Suspends(TRUE)
    /\ Head(ctrl_queue).data = node
    /\ connection_counter < MaxConnections
    /\ \E n \in (IF node # None THEN {node}
                 ELSE IF Nodes \ failed_nodes = {} THEN {None}
                 ELSE Nodes \ failed_nodes) :
          IF n = None
          THEN \* discovery.discover() raised
               /\ ctrl_queue' = Append(Tail(ctrl_queue),
                                   Instruction("HandleConnectorFailed", 1))
               /\ UNCHANGED <<target_node, connection_counter, sock, pumps>>
          ELSE /\ target_node' = (IF node = None THEN n ELSE target_node)
               /\ connection_counter' = connection_counter + 1
               /\ \E dialled \in BOOLEAN :
                     IF dialled
                     THEN /\ ConnectionMade(connection_counter')
                          /\ ctrl_queue' = Append(Tail(ctrl_queue),
                                Instruction("HandleConnectionOpened",
                                            connection_counter'))
                     ELSE \* the error of a dial names the node dialled
                          /\ ctrl_queue' = Append(Tail(ctrl_queue),
                                Instruction("HandleConnectFailure", n))
                          /\ UNCHANGED <<sock, pumps>>
    /\ UNCHANGED <<observerVars, stop_task, put_tasks,
                   state, run_loop, heartbeat_failures, active_protocol,
                   policyVars, input_queue, output_queue, pacemaker,
                   dispatcherVars, conversationVars, frames_sent,
                   heartbeats_sent, readerVars, v2Vars>>

\* Connector.start(target=n) called from outside as the first command of a
\* connector: Connect(n) for an explicit node.
StartTarget(n) ==
    /\ state = "Unset"
    /\ state' = "Connecting"
    /\ ctrl_queue' = Append(ctrl_queue, Instruction("Connect", n))
    /\ UNCHANGED <<observerVars, stop_task, put_tasks,
                   run_loop, heartbeat_failures, active_protocol, target_node,
                   connection_counter, policyVars, protocolVars,
                   dispatcherVars, conversationVars, frames_sent,
                   heartbeats_sent, readerVars, v2Vars>>

\* Connector._on_connect_failed when no node was ever discovered: the
\* attribute target_node does not exist, reading it raises AttributeError
\* out of _run, and the control loop task ends with the command consumed.
OnConnectFailedUnset ==
    /\ Handling("HandleConnectFailure")
    /\ target_node = None
    /\ ctrl_queue' = Tail(ctrl_queue)
    /\ run_loop' = "failed"
    /\ UNCHANGED <<observerVars, stop_task, put_tasks, state,
                   heartbeat_failures, active_protocol, target_node,
                   connection_counter, policyVars, protocolVars,
                   dispatcherVars, conversationVars, frames_sent,
                   heartbeats_sent, readerVars, v2Vars>>

\* Connector._on_connect_failed. It reads self.target_node, which only
\* _attempt_connect assigns, and only when it discovers a node.
OnConnectFailed ==
    LET fails == record_failure(target_node, failures)
    IN  /\ Handling("HandleConnectFailure")
        /\ target_node # None
        /\ Suspends(ReconnectTarget(target_node, fails) # None)
        /\ failures' = fails
        /\ failed_nodes' = ReconnectMarks(target_node, fails)
        /\ state' = "Connecting"
        /\ ctrl_queue' = Append(Tail(ctrl_queue),
              Instruction("Connect", ReconnectTarget(target_node, fails)))
        /\ UNCHANGED <<observerVars, stop_task, put_tasks,
                       run_loop, heartbeat_failures, active_protocol,
                       target_node, connection_counter, retries_per_node,
                       protocolVars, dispatcherVars, conversationVars,
                       frames_sent, heartbeats_sent, readerVars, v2Vars>>

\* Whether every tracked conversation has its start frame on queue q.
Replayed(q) ==
    \A c \in SeqToSet(active_conversations) : Frame(c, "start") \in SeqToSet(q)

\* self.connected(address) comes after await self.dispatcher.write_to(...):
\* whether the observers find the replay on the new outbound queue.
ConnectedSees(p, oq) == Replayed(oq[p])

\* Connector._on_transport_received(address, protocol)
OnTransportReceived(p) ==
    /\ Handling("HandleConnectionOpened")
    /\ Head(ctrl_queue).data = p
    /\ replay = NoReplay
    /\ active_protocol' = p
    /\ output' = p
    /\ output_queue' = write_to(p, output_queue)
    /\ start_log' = [c \in Conversations |->
          IF InMap(c) THEN start_log[c] \cup {p} ELSE start_log[c]]
    /\ connected_calls' = Append(connected_calls,
          [address |-> target_node,
           replayed |-> ConnectedSees(p, write_to(p, output_queue))])
    /\ ctrl_queue' = Tail(ctrl_queue)
    /\ UNCHANGED <<stop_task, put_tasks,
                   state, run_loop, heartbeat_failures,
                   target_node, connection_counter, disconnected_calls,
                   stopped_calls, policyVars, sock, pumps, input_queue,
                   pacemaker, active_conversations, replay, started,
                   is_complete,
                   result, responses, frames_sent, heartbeats_sent, readerVars,
                   v2Vars>>

\* Connector._on_transport_received taken one await at a time, when the
\* await in the loop of write_to gives way to other tasks. It sets
\* active_protocol and enters write_to, which sets self.output, begins the
\* iteration over active_conversations.values() and starts the first
\* conversation; HandleConnectionOpened stays at the head of the control
\* queue while its handler is running. (With an empty map the loop has no
\* await: OnTransportReceived.)
WriteToBegins(p) ==
    /\ Handling("HandleConnectionOpened")
    /\ Head(ctrl_queue).data = p
    /\ replay = NoReplay
    /\ active_protocol # p
    /\ active_conversations # <<>>
    /\ active_protocol' = p
    /\ output' = p
    /\ LET c == Head(active_conversations)
       IN  /\ output_queue' = ConversationStart(c, p, output_queue)
           /\ start_log' = [start_log EXCEPT ![c] = @ \cup {p}]
    /\ replay' = [to |-> p, size |-> Len(active_conversations), done |-> 1]
    /\ UNCHANGED <<observerVars, state, ctrl_queue, run_loop,
                   heartbeat_failures, target_node, connection_counter,
                   stop_task, put_tasks, policyVars, sock, pumps,
                   input_queue, pacemaker, active_conversations, started,
                   is_complete, result, responses, frames_sent,
                   heartbeats_sent, readerVars, v2Vars>>

\* One turn of the loop: the iterator yields the next entry, the map being
\* as long as when the iteration began, and `await conversation.start(
\* self.output)` puts its start frame on the queue.
WriteToNext ==
    /\ replay.to # None
    /\ Len(active_conversations) = replay.size
    /\ replay.done < replay.size
    /\ LET c == active_conversations[replay.done + 1]
       IN  /\ output_queue' = ConversationStart(c, output, output_queue)
           /\ start_log' = [start_log EXCEPT ![c] = @ \cup {output}]
    /\ replay' = [replay EXCEPT !.done = @ + 1]
    /\ UNCHANGED <<observerVars, connectorVars, policyVars, sock, pumps,
                   input_queue, pacemaker, active_conversations, output,
                   started, is_complete, result, responses, frames_sent,
                   heartbeats_sent, readerVars, v2Vars>>

\* The iterator is asked for its next entry after the map has changed its
\* length: RuntimeError (dictionary changed size during iteration) leaves
\* write_to, _on_transport_received and _run, so the control loop ends with
\* the command consumed and connected() is never called.
WriteToRaises ==
    /\ replay.to # None
    /\ Len(active_conversations) # replay.size
    /\ replay' = NoReplay
    /\ ctrl_queue' = Tail(ctrl_queue)
    /\ run_loop' = "failed"
    /\ UNCHANGED <<observerVars, state, heartbeat_failures, active_protocol,
                   target_node, connection_counter, stop_task, put_tasks,
                   policyVars, protocolVars, active_conversations, output,
                   conversationVars, frames_sent, heartbeats_sent,
                   readerVars, v2Vars>>

\* The iteration is exhausted: write_to returns and the connected
\* observers are called.
WriteToEnds ==
    /\ replay.to # None
    /\ Len(active_conversations) = replay.size
    /\ replay.done = replay.size
    /\ replay' = NoReplay
    /\ connected_calls' = Append(connected_calls,
          [address |-> target_node,
           replayed |-> ConnectedSees(replay.to, output_queue)])
    /\ ctrl_queue' = Tail(ctrl_queue)
    /\ UNCHANGED <<state, run_loop, heartbeat_failures, active_protocol,
                   target_node, connection_counter, stop_task, put_tasks,
                   disconnected_calls, stopped_calls, policyVars,
                   protocolVars, active_conversations, output,
                   conversationVars, frames_sent, heartbeats_sent,
                   readerVars, v2Vars>>

\* A loss handler that also forgets the conversations in flight.
OnTransportLostForgets ==
    /\ \/ Handling("HandleConnectionClosed")
       \/ Handling("HandleConnectionFailed")
    /\ Suspends(ReconnectTarget(target_node, failures) # None)
    /\ failed_nodes' = ReconnectMarks(target_node, failures)
    /\ state' = "Connecting"
    /\ ctrl_queue' = Append(Tail(ctrl_queue),
          Instruction("Connect", ReconnectTarget(target_node, failures)))
    /\ active_conversations' = <<>>
    /\ disconnected_calls' = disconnected_calls + 1
    /\ UNCHANGED <<stop_task, put_tasks,
                   run_loop, heartbeat_failures, active_protocol,
                   target_node, connection_counter, connected_calls,
                   stopped_calls, retries_per_node, failures,
                   protocolVars, output, replay, conversationVars,
                   frames_sent, heartbeats_sent, readerVars, v2Vars>>

\* Connector._on_transport_closed and Connector._on_transport_error
OnTransportLost ==
    /\ \/ Handling("HandleConnectionClosed")
       \/ Handling("HandleConnectionFailed")
    /\ Suspends(ReconnectTarget(target_node, failures) # None)
    /\ failed_nodes' = ReconnectMarks(target_node, failures)
    /\ state' = "Connecting"
    /\ ctrl_queue' = Append(Tail(ctrl_queue),
          Instruction("Connect", ReconnectTarget(target_node, failures)))
    /\ disconnected_calls' = disconnected_calls + 1
    /\ UNCHANGED <<stop_task, put_tasks,
                   run_loop, heartbeat_failures, active_protocol,
                   target_node, connection_counter, connected_calls,
                   stopped_calls, retries_per_node, failures,
                   protocolVars, dispatcherVars, conversationVars, frames_sent,
                   heartbeats_sent, readerVars, v2Vars>>

\* Connector._on_failed_heartbeat: whether this failure stops the transport.
\* A threshold that is off by one.
HeartbeatTearsDownEarly(count) == count >= HeartbeatFailureLimit - 1

HeartbeatTearsDown(count) == count >= HeartbeatFailureLimit

OnFailedHeartbeat ==
    LET count == heartbeat_failures + 1
    IN  /\ Handling("HandleHeartbeatFailed")
        /\ IF HeartbeatTearsDown(count)
           THEN /\ pumps' = StoppedPumps(active_protocol, pumps)
                /\ sock' = StoppedSock(active_protocol, sock)
                /\ heartbeat_failures' = 0
           ELSE /\ heartbeat_failures' = count
                /\ UNCHANGED <<pumps, sock>>
        /\ ctrl_queue' = Tail(ctrl_queue)
        /\ UNCHANGED <<observerVars, stop_task, put_tasks,
                       state, run_loop, active_protocol, target_node,
                       connection_counter, policyVars, input_queue,
                       output_queue, pacemaker, dispatcherVars,
                       conversationVars, frames_sent, heartbeats_sent,
                       readerVars, v2Vars>>

\* A handler of HandleHeartbeatSuccess that leaves the counter as it is.
OnSuccessfulHeartbeatKeeps ==
    /\ Handling("HandleHeartbeatSuccess")
    /\ ctrl_queue' = Tail(ctrl_queue)
    /\ UNCHANGED <<observerVars, stop_task, put_tasks,
                   state, run_loop, heartbeat_failures, active_protocol,
                   target_node, connection_counter, policyVars, protocolVars,
                   dispatcherVars, conversationVars, frames_sent,
                   heartbeats_sent, readerVars, v2Vars>>

\* Connector._on_successful_heartbeat
OnSuccessfulHeartbeat ==
    /\ Handling("HandleHeartbeatSuccess")
    /\ heartbeat_failures' = 0
    /\ ctrl_queue' = Tail(ctrl_queue)
    /\ UNCHANGED <<observerVars, stop_task, put_tasks,
                   state, run_loop, active_protocol, target_node,
                   connection_counter, policyVars, protocolVars,
                   dispatcherVars, conversationVars, frames_sent,
                   heartbeats_sent, readerVars, v2Vars>>

\* A stop that invokes the stopped observers without the error.
stopDropsError(exn) ==
    /\ state' = "Stopping"
    /\ IF active_protocol # None
       THEN /\ pumps' = StoppedPumps(active_protocol, pumps)
            /\ sock' = StoppedSock(active_protocol, sock)
       ELSE UNCHANGED <<pumps, sock>>
    /\ active_protocol' = None
    /\ run_loop' = Cancelled(run_loop)
    /\ stopped_calls' = Append(stopped_calls, None)

\* Connector.stop(exn), called from a handler of the control loop: the
\* active protocol is stopped and forgotten, the control loop is cancelled
\* (it ends at its next wait on the control queue) and the stopped
\* observers are called with exn. Nothing else handles an instruction
\* meanwhile, the control loop itself is waiting for stop to return.
stop(exn) ==
    /\ state' = "Stopping"
    /\ IF active_protocol # None
       THEN /\ pumps' = StoppedPumps(active_protocol, pumps)
            /\ sock' = StoppedSock(active_protocol, sock)
       ELSE UNCHANGED <<pumps, sock>>
    /\ active_protocol' = None
    /\ run_loop' = Cancelled(run_loop)
    /\ stopped_calls' = Append(stopped_calls, exn)

\* Connector._on_connector_failed
OnConnectorFailed ==
    /\ Handling("HandleConnectorFailed")
    /\ stop(Head(ctrl_queue).data)
    /\ ctrl_queue' = Tail(ctrl_queue)
    /\ UNCHANGED <<heartbeat_failures, target_node, connection_counter,
                   stop_task, put_tasks, connected_calls, disconnected_calls,
                   policyVars,
                   input_queue, output_queue, pacemaker, dispatcherVars,
                   conversationVars, frames_sent, heartbeats_sent, readerVars,
                   v2Vars>>

\* Client.close() -> Connector.stop(): the state is set; with an active
\* protocol its four pumps are cancelled and stop waits for them to end,
\* while the control loop goes on handling instructions; with none, stop
\* runs to its end at once.
ClientClose ==
    /\ state \in {"Unset", "Connecting"}
    /\ run_loop = "running"
    /\ stop_task = None
    /\ state' = "Stopping"
    /\ IF active_protocol # None
       THEN /\ pumps' \in CancelOutcomes(active_protocol, pumps)
            /\ stop_task' = active_protocol
            /\ UNCHANGED <<run_loop, stopped_calls>>
       ELSE /\ run_loop' = Cancelled(run_loop)
            /\ stopped_calls' = Append(stopped_calls, None)
            /\ UNCHANGED <<pumps, stop_task>>
    /\ UNCHANGED <<ctrl_queue, put_tasks, heartbeat_failures,
                   active_protocol,
                   target_node, connection_counter, connected_calls,
                   disconnected_calls, policyVars, sock, input_queue,
                   output_queue, pacemaker, dispatcherVars, conversationVars,
                   frames_sent, heartbeats_sent, readerVars, v2Vars>>

\* The rest of Connector.stop() once the pumps have ended (gather returns
\* when all four tasks are done): the socket of the protocol it stopped is
\* closed, whichever protocol is active by now is forgotten, the control
\* loop is cancelled and the stopped observers are called.
ClientCloseEnds ==
    /\ stop_task # None
    /\ Ended(stop_task, pumps)
    /\ sock' = StoppedSock(stop_task, sock)
    /\ active_protocol' = None
    /\ run_loop' = Cancelled(run_loop)
    /\ stopped_calls' = Append(stopped_calls, None)
    /\ stop_task' = None
    /\ UNCHANGED <<state, ctrl_queue, put_tasks, heartbeat_failures,
                   target_node,
                   connection_counter, connected_calls, disconnected_calls,
                   policyVars, pumps, input_queue, output_queue, pacemaker,
                   dispatcherVars, conversationVars, frames_sent,
                   heartbeats_sent, readerVars, v2Vars>>

\* Client.close() called on a connector that has been stopped already:
\* Connector.stop runs again from its first line, finds no active protocol
\* and a cancelled control loop, and calls the stopped observers.
ClientCloseAgain ==
    /\ state = "Stopping"
    /\ stop_task = None
    /\ run_loop # "running"
    /\ Len(stopped_calls) < MaxStops
    /\ stop(None)
    /\ UNCHANGED <<ctrl_queue, stop_task, put_tasks, heartbeat_failures,
                   target_node, connection_counter, connected_calls,
                   disconnected_calls, policyVars, input_queue,
                   output_queue, pacemaker, dispatcherVars, conversationVars,
                   frames_sent, heartbeats_sent, readerVars, v2Vars>>

\* --------------------------------------------------------------- the engine
\* MessageReader.__init__. cmd and flags are not set before the first
\* header is unpacked, and not read before that either; None and an empty
\* buffer are both <<>>.
ReaderNew ==
    /\ header_bytes = [i \in 1..MESSAGE_MIN_SIZE |-> 0]
    /\ header_bytes_required = MESSAGE_MIN_SIZE
    /\ length = 0
    /\ cmd = -1
    /\ flags = -1
    /\ conversation_id = <<>>
    /\ message_offset = 0
    /\ message_buffer = <<>>
    /\ received = <<>>

\* A reader that is fed no bytes.
ReaderIdle ==
    /\ ReaderNew
    /\ stream = <<>>
    /\ fed = <<>>
    /\ read_loop = "none"

V2Idle ==
    /\ v2_connected = FALSE
    /\ v2_input = <<>>
    /\ v2_output = <<>>
    /\ v2_conversations = <<>>
    /\ v2_result = [c \in Conversations |-> "none"]
    /\ v2_dispatch_loop = "none"
    /\ v2_complete = [c \in Conversations |-> FALSE]

EngineIdle ==
    /\ state = "Unset"
    /\ ctrl_queue = <<>>
    /\ run_loop = "running"
    /\ heartbeat_failures = 0
    /\ active_protocol = None
    /\ target_node = None
    /\ connection_counter = 0
    /\ stop_task = None
    /\ put_tasks = <<>>
    /\ connected_calls = <<>>
    /\ disconnected_calls = 0
    /\ stopped_calls = <<>>
    /\ failures = [n \in Nodes |-> 0]
    /\ failed_nodes = {}
    /\ sock = [p \in Protocols |-> "none"]
    /\ pumps = [p \in Protocols |-> AllPumps("none")]
    /\ input_queue = [p \in Protocols |-> <<>>]
    /\ output_queue = [p \in Protocols |-> <<>>]
    /\ pacemaker = [p \in Protocols |-> [fut |-> "none", waiting |-> FALSE]]
    /\ active_conversations = <<>>
    /\ output = None
    /\ replay = NoReplay
    /\ started = {}
    /\ is_complete = [c \in Conversations |-> FALSE]
    /\ result = [c \in Conversations |-> "pending"]
    /\ responses = [c \in Conversations |-> 0]
    /\ start_log = [c \in Conversations |-> {}]
    /\ frames_sent = 0
    /\ heartbeats_sent = 0

Init ==
    /\ retries_per_node \in 0..MaxRetries
    /\ EngineIdle
    /\ ReaderIdle
    /\ V2Idle

\* The engine without the pacemaker's send cycle: the Connector, the
\* MessageDispatcher and the read, write and dispatch pumps.
Next ==
    \/ ClientConnect
    \/ ClientClose
    \/ ClientCloseEnds
    \/ \E node \in Nodes \cup {None} : OnConnect(node)
    \/ OnConnectFailed
    \/ \E p \in Protocols : OnTransportReceived(p)
    \/ OnTransportLost
    \/ OnConnectorFailed
    \/ \E c \in Conversations : start_conversation(c)
    \/ \E p \in Protocols : DispatchPump(p)
    \/ \E p \in Protocols : WritePump(p)
    \/ \E p \in Protocols : \E m \in ConversationMessages : Receive(p, m)
    \/ \E p \in Protocols : \E exn \in {0, 1} : PeerDrop(p, exn)
    \/ \E p \in Protocols : SocketClosed(p)

Spec == Init /\ [][Next]_vars

\* The life of one tracked conversation across connect, loss, reconnect
\* and stop. The event loop runs every task that is ready, so the control
\* loop's handlers, the pumps and the end of a pending stop are weakly
\* fair; the server is taken to send the conversation's final reply
\* whenever it can. The client's calls and the loss of a connection are
\* under no obligation to happen.
NextTermination ==
    \/ ClientConnect
    \/ ClientClose
    \/ ClientCloseEnds
    \/ \E node \in Nodes \cup {None} : OnConnect(node)
    \/ OnConnectFailed
    \/ \E p \in Protocols : OnTransportReceived(p)
    \/ OnTransportLost
    \/ OnConnectorFailed
    \/ start_conversation(1)
    \/ \E p \in Protocols : DispatchPump(p)
    \/ \E p \in Protocols : WritePump(p)
    \/ \E p \in Protocols : \E k \in {"partial", "final"} :
          Receive(p, Frame(1, k))
    \/ \E p \in Protocols : PeerDrop(p, 1)
    \/ \E p \in Protocols : SocketClosed(p)

Scheduling ==
    /\ WF_vars(\E node \in Nodes \cup {None} : OnConnect(node))
    /\ WF_vars(OnConnectFailed)
    /\ WF_vars(\E p \in Protocols : OnTransportReceived(p))
    /\ WF_vars(OnTransportLost)
    /\ WF_vars(OnConnectorFailed)
    /\ WF_vars(ClientCloseEnds)
    /\ \A p \in Protocols :
          /\ WF_vars(DispatchPump(p))
          /\ WF_vars(WritePump(p))
          /\ WF_vars(SocketClosed(p))
          /\ WF_vars(Receive(p, Frame(1, "final")))

SpecTermination == Init /\ [][NextTermination]_vars /\ Scheduling

\* The control queue and who puts on it: start() and the handlers of the
\* control loop put directly, the callbacks of the transport and of the
\* pacemaker through _put_msg.
NextControl ==
    \/ ClientConnect
    \/ \E node \in Nodes \cup {None} : OnConnect(node)
    \/ OnConnectFailed
    \/ \E p \in Protocols : OnTransportReceived(p)
    \/ OnTransportLost
    \/ OnConnectorFailed
    \/ OnFailedHeartbeat
    \/ \E p \in Protocols : SendHeartbeat(p)
    \/ \E p \in Protocols : HeartbeatFailedScheduled(p)
    \/ \E p \in Protocols : \E exn \in {0, 1} :
          ConnectionLostScheduled(p, exn)
    \/ \E p \in Protocols : SocketClosed(p)
    \/ PutTaskRuns

SpecControl == Init /\ [][NextControl]_vars

\* The attach replay one await at a time: callers may start conversations
\* between two turns of the loop of write_to.
NextReplay ==
    \/ ClientConnect
    \/ \E node \in Nodes \cup {None} : OnConnect(node)
    \/ \E p \in Protocols : OnTransportReceived(p)
    \/ \E p \in Protocols : WriteToBegins(p)
    \/ WriteToNext
    \/ WriteToRaises
    \/ WriteToEnds
    \/ \E c \in Conversations : start_conversation(c)
    \/ \E p \in Protocols : WritePump(p)

SpecReplay == Init /\ [][NextReplay]_vars

\* Closing: the client may call close() again after the connector has
\* stopped, by an earlier close() or by a failed discovery.
NextClose ==
    \/ ClientConnect
    \/ \E node \in Nodes \cup {None} : OnConnect(node)
    \/ OnConnectFailed
    \/ OnConnectorFailed
    \/ \E p \in Protocols : OnTransportReceived(p)
    \/ \E c \in Conversations : start_conversation(c)
    \/ \E p \in Protocols : WritePump(p)
    \/ ClientClose
    \/ ClientCloseEnds
    \/ ClientCloseAgain

SpecClose == Init /\ [][NextClose]_vars

\* Dialling: the first command is a Connect with or without an explicit
\* node, dials succeed or fail, and callers start conversations meanwhile.
NextDial ==
    \/ ClientConnect
    \/ \E n \in Nodes : StartTarget(n)
    \/ \E node \in Nodes \cup {None} : OnConnect(node)
    \/ OnConnectFailed
    \/ OnConnectFailedUnset
    \/ OnConnectorFailed
    \/ \E p \in Protocols : OnTransportReceived(p)
    \/ \E c \in Conversations : start_conversation(c)
    \/ \E p \in Protocols : WritePump(p)

SpecDial == Init /\ [][NextDial]_vars

\* Callers that give up: a result handle may be cancelled at any time
\* while the connection comes, goes and comes back.
NextCancel ==
    \/ ClientConnect
    \/ \E node \in Nodes \cup {None} : OnConnect(node)
    \/ \E p \in Protocols : OnTransportReceived(p)
    \/ OnTransportLost
    \/ \E c \in Tracked : start_conversation(c)
    \/ \E c \in Tracked : CancelResult(c)
    \/ \E p \in Protocols : DispatchPump(p)
    \/ \E p \in Protocols : DispatchPumpFails(p)
    \/ \E p \in Protocols : WritePump(p)
    \/ \E p \in Protocols : \E m \in ConversationMessages : Receive(p, m)
    \/ \E p \in Protocols : PeerDrop(p, 0)

SpecCancel == Init /\ [][NextCancel]_vars

\* Write errors: the only way a connection is lost here is a socket that
\* fails while the write pump sends, and the peer never answers.
NextWrite ==
    \/ ClientConnect
    \/ \E node \in Nodes \cup {None} : OnConnect(node)
    \/ \E p \in Protocols : OnTransportReceived(p)
    \/ OnTransportLost
    \/ \E c \in Conversations : start_conversation(c)
    \/ \E p \in Protocols : WritePump(p)
    \/ \E p \in Protocols : WriteFails(p)
    \/ \E p \in Protocols : TransportFails(p)

SpecWrite == Init /\ [][NextWrite]_vars

\* Dispatch with protocol errors: the server may also send a frame that a
\* tracked conversation cannot read.
NextDispatch ==
    \/ ClientConnect
    \/ \E node \in Nodes \cup {None} : OnConnect(node)
    \/ \E p \in Protocols : OnTransportReceived(p)
    \/ \E c \in Tracked : start_conversation(c)
    \/ \E p \in Protocols : DispatchPump(p)
    \/ \E p \in Protocols : DispatchPumpFails(p)
    \/ \E p \in Protocols : WritePump(p)
    \/ \E p \in Protocols : \E c \in Tracked :
          \E k \in {"partial", "final", "malformed"} : Receive(p, Frame(c, k))

SpecDispatch == Init /\ [][NextDispatch]_vars

\* The stop of a transport whose write pump may be waiting in drain():
\* connect, attach, conversations that fill the outbound queue, the write
\* pump with and without a full transport buffer, and Client.close().
NextStop ==
    \/ ClientConnect
    \/ ClientClose
    \/ ClientCloseEnds
    \/ \E node \in Nodes \cup {None} : OnConnect(node)
    \/ \E p \in Protocols : OnTransportReceived(p)
    \/ \E c \in Conversations : start_conversation(c)
    \/ \E p \in Protocols : WritePump(p)
    \/ \E p \in Protocols : WriteBlocks(p)
    \/ \E p \in Protocols : DrainResumes(p)
    \/ \E p \in Protocols : SocketClosed(p)

SpecStop == Init /\ [][NextStop]_vars

\* The heartbeat path: the pacemaker's send cycle and the connector's
\* heartbeat handlers on top of connect, loss and reconnect, with one
\* conversation and heartbeat frames only from the server.
NextHeartbeat ==
    \/ ClientConnect
    \/ \E node \in Nodes \cup {None} : OnConnect(node)
    \/ OnConnectFailed
    \/ \E p \in Protocols : OnTransportReceived(p)
    \/ OnTransportLost
    \/ OnConnectorFailed
    \/ OnFailedHeartbeat
    \/ OnSuccessfulHeartbeat
    \/ start_conversation(1)
    \/ \E p \in Protocols : WritePump(p)
    \/ \E p \in Protocols : \E m \in HeartbeatMessages(p) : Receive(p, m)
    \/ \E p \in Protocols : PeerDrop(p, 1)
    \/ \E p \in Protocols : SocketClosed(p)
    \/ \E p \in Protocols : SendHeartbeat(p)
    \/ \E p \in Protocols : HeartbeatReceived(p)
    \/ \E p \in Protocols : HeartbeatTimeout(p)

SpecHeartbeat == Init /\ [][NextHeartbeat]_vars

\* =========================================================== MessageReader
\* A conversation id on the wire is a UUID: here the sequence of its 16
\* bytes in network order (uuid.UUID.bytes). Uuid(n) is the UUID that
\* stands for the small id n.
Uuid(n) == [i \in 1..16 |-> (16 * n + i) % 256]

\* TcpCommand values of the heartbeat commands and of one other command.
HeartbeatRequest == 1
HeartbeatResponse == 2
Ping == 3

\* bytes <-> bytes_le of a UUID: the first three fields change byte order.
SwapFields(b) ==
    <<b[4], b[3], b[2], b[1], b[6], b[5], b[8], b[7]>> \o SubSeq(b, 9, 16)

\* OutboundMessage.header_bytes followed by the payload: the length as
\* four little-endian bytes, command, flags, the UUID's bytes_le, payload.
ToLE32(n) ==
    <<n % 256, (n \div 256) % 256, (n \div 65536) % 256,
      (n \div 16777216) % 256>>

Encode(F) ==
    ToLE32(F.length) \o <<F.cmd, F.flags>> \o SwapFields(F.conversation_id)
        \o F.payload

\* HEAD_PACK = struct.Struct("<IBB"): the length of header_bytes[0:6].
UnpackLength(b) == b[1] + 256 * b[2] + 65536 * b[3] + 16777216 * b[4]

\* A UUID taken from the header bytes as they are.
UuidFromBytes(b) == b

\* uuid.UUID(bytes_le=header_bytes[6:22])
UuidFromBytesLE(b) == SwapFields(b)

\* msg.InboundMessage(conversation_id, cmd, message_buffer or b"")
InboundMessage(id, command, payload) ==
    [conversation_id |-> id, command |-> command, payload |-> payload]

Min(a, b) == IF a < b THEN a ELSE b

\* end_span = min(chunk_len, message_bytes_required + chunk_offset)
EndSpan(chunk_len, message_bytes_required, chunk_offset) ==
    Min(chunk_len, message_bytes_required + chunk_offset)

\* The reader's fields, with what its routing changes: the inbound queue,
\* the pacemaker's future and the outbound queue the pacemaker writes to.
ReaderState ==
    [header_bytes |-> header_bytes,
     header_bytes_required |-> header_bytes_required,
     length |-> length, cmd |-> cmd, flags |-> flags,
     conversation_id |-> conversation_id,
     message_offset |-> message_offset, message_buffer |-> message_buffer,
     received |-> received, queue |-> input_queue[1],
     fut |-> pacemaker[1].fut, output |-> output_queue[1],
     status |-> "running"]

\* The inner loop of process: bytes of the chunk are copied into the header
\* until it is full or the chunk ends; a full header is unpacked.
ReadHeader(r, chunk, chunk_offset) ==
    LET n == Min(r.header_bytes_required, Len(chunk) - chunk_offset)
        offset == MESSAGE_MIN_SIZE - r.header_bytes_required
        bytes == SubSeq(r.header_bytes, 1, offset)
                   \o SubSeq(chunk, chunk_offset + 1, chunk_offset + n)
                   \o SubSeq(r.header_bytes, offset + n + 1,
                             MESSAGE_MIN_SIZE)
        full == n = r.header_bytes_required
    IN  IF n = 0 THEN r
        ELSE [r EXCEPT
                !.header_bytes = bytes,
                !.header_bytes_required = @ - n,
                !.length = IF full THEN UnpackLength(SubSeq(bytes, 1, 4))
                           ELSE @,
                !.cmd = IF full THEN bytes[5] ELSE @,
                !.flags = IF full THEN bytes[6] ELSE @,
                !.conversation_id =
                    IF full THEN UuidFromBytesLE(SubSeq(bytes, 7, 22)) ELSE @,
                !.message_offset = HEADER_LENGTH]

\* The message is handed on: heartbeat requests and responses to the
\* pacemaker, the rest to the inbound queue. PaceMaker.handle_response
\* calls set_result on its future, which raises InvalidStateError unless
\* the future is pending.
Route(r, message) ==
    IF message.command = HeartbeatRequest
    THEN [r EXCEPT !.output = Append(@,
             Frame(message.conversation_id, "HeartbeatResponse"))]
    ELSE IF message.command = HeartbeatResponse
    THEN IF message.conversation_id # Uuid(HeartbeatId(1)) \/ r.fut = "none"
         THEN r
         ELSE IF r.fut = "pending" THEN [r EXCEPT !.fut = "done"]
         ELSE [r EXCEPT !.status = "failed"]
    ELSE [r EXCEPT !.queue = Append(@, message)]

\* The end of an outer iteration of process: a complete message is built,
\* routed, and the reader is reset for the next header.
Emit(r) ==
    LET message ==
            InboundMessage(r.conversation_id, r.cmd, r.message_buffer)
        routed == Route([r EXCEPT !.received = Append(@, message)], message)
    IN  IF routed.status = "failed" THEN routed
        ELSE [routed EXCEPT
                !.length = -1, !.message_offset = 0,
                !.conversation_id = <<>>, !.cmd = -1,
                !.header_bytes_required = MESSAGE_MIN_SIZE,
                !.message_buffer = <<>>]

\* MessageReader.process(chunk), from chunk_offset on. An iteration that
\* starts with a full header and a negative message_bytes_required copies
\* nothing, emits nothing and leaves chunk_offset where it is: the loop
\* never ends.
RECURSIVE process(_, _, _)
process(r, chunk, chunk_offset) ==
    IF chunk_offset >= Len(chunk) \/ r.status # "running" THEN r
    ELSE
    LET h == ReadHeader(r, chunk, chunk_offset)
        offset1 == chunk_offset
                     + Min(r.header_bytes_required, Len(chunk) - chunk_offset)
        message_bytes_required == h.length - h.message_offset
        end_span == EndSpan(Len(chunk), message_bytes_required, offset1)
        bytes_read == end_span - offset1
        b == IF message_bytes_required > 0
             THEN [h EXCEPT
                     !.message_buffer =
                         @ \o SubSeq(chunk, offset1 + 1, end_span),
                     !.message_offset = @ + bytes_read]
             ELSE h
        remaining == IF message_bytes_required > 0
                     THEN message_bytes_required - bytes_read
                     ELSE message_bytes_required
        offset2 == IF message_bytes_required > 0 THEN end_span ELSE offset1
    IN  IF remaining = 0 THEN process(Emit(b), chunk, offset2)
        ELSE IF offset2 = chunk_offset /\ b = r
        THEN [r EXCEPT !.status = "hung"]
        ELSE process(b, chunk, offset2)

\* MessageReader.start: the read pump reads the next n bytes the server
\* sent and processes them.
Feed(n) ==
    /\ read_loop = "running"
    /\ n \in 1..Len(stream)
    /\ LET r == process(ReaderState, SubSeq(stream, 1, n), 0)
       IN  /\ stream' = SubSeq(stream, n + 1, Len(stream))
           /\ header_bytes' = r.header_bytes
           /\ header_bytes_required' = r.header_bytes_required
           /\ length' = r.length
           /\ cmd' = r.cmd
           /\ flags' = r.flags
           /\ conversation_id' = r.conversation_id
           /\ message_offset' = r.message_offset
           /\ message_buffer' = r.message_buffer
           /\ received' = r.received
           /\ read_loop' = r.status
           /\ input_queue' = [input_queue EXCEPT ![1] = r.queue]
           /\ output_queue' = [output_queue EXCEPT ![1] = r.output]
           /\ pacemaker' = [pacemaker EXCEPT ![1].fut = r.fut]
    /\ UNCHANGED <<observerVars, connectorVars,
                   policyVars, sock, pumps, dispatcherVars,
                   conversationVars, frames_sent, heartbeats_sent, fed,
                   v2Vars>>

\* The frames a server may send: what Encode makes of the heartbeat frames
\* and of a Ping with a payload of 0..MaxPayload bytes and either flag ...
Payload(n) == [i \in 1..n |-> 64 + i]

WireFrame(command, flag, id, n) ==
    [length |-> HEADER_LENGTH + n, cmd |-> command, flags |-> flag,
     conversation_id |-> Uuid(id), payload |-> Payload(n)]

WellFormed ==
    {WireFrame(HeartbeatRequest, 0, ServerHeartbeatId, 0),
     WireFrame(HeartbeatResponse, 0, HeartbeatId(1), 0)}
    \cup {WireFrame(Ping, f, 1, n) : f \in {0, 1}, n \in 0..MaxPayload}

\* ... and a header whose length field is below the 18 bytes every frame
\* has after the length.
ShortLength ==
    {[WireFrame(Ping, 0, 1, 0) EXCEPT !.length = HEADER_LENGTH - 1]}

RECURSIVE EncodeAll(_)
EncodeAll(frames) ==
    IF frames = <<>> THEN <<>>
    ELSE Encode(Head(frames)) \o EncodeAll(Tail(frames))

Streams ==
    UNION {[1..n -> WellFormed \cup ShortLength] : n \in 0..MaxStreamFrames}

\* The connector has just attached its first transport (the state after
\* ClientConnect, OnConnect and OnTransportReceived): connection 1 is open,
\* its pumps run, and the server is about to send the frames of `fed`.
InitReader ==
    /\ retries_per_node = 0
    /\ state = "Connecting"
    /\ ctrl_queue = <<>>
    /\ run_loop = "running"
    /\ heartbeat_failures = 0
    /\ active_protocol = 1
    /\ target_node = 1
    /\ connection_counter = 1
    /\ stop_task = None
    /\ put_tasks = <<>>
    /\ connected_calls = <<[address |-> 1, replayed |-> TRUE]>>
    /\ disconnected_calls = 0
    /\ stopped_calls = <<>>
    /\ failures = [n \in Nodes |-> 0]
    /\ failed_nodes = {}
    /\ sock = [p \in Protocols |-> IF p = 1 THEN "open" ELSE "none"]
    /\ pumps = [p \in Protocols |->
                  IF p = 1 THEN AllPumps("running") ELSE AllPumps("none")]
    /\ input_queue = [p \in Protocols |-> <<>>]
    /\ output_queue = [p \in Protocols |-> <<>>]
    /\ pacemaker = [p \in Protocols |-> [fut |-> "none", waiting |-> FALSE]]
    /\ active_conversations = <<>>
    /\ output = 1
    /\ replay = NoReplay
    /\ started = {}
    /\ is_complete = [c \in Conversations |-> FALSE]
    /\ result = [c \in Conversations |-> "pending"]
    /\ responses = [c \in Conversations |-> 0]
    /\ start_log = [c \in Conversations |-> {}]
    /\ frames_sent = 0
    /\ heartbeats_sent = 0
    /\ fed \in Streams
    /\ stream = EncodeAll(fed)
    /\ ReaderNew
    /\ read_loop = "running"
    /\ V2Idle

NextReader ==
    \/ \E n \in 1..(MaxStreamFrames * (MESSAGE_MIN_SIZE + MaxPayload)) :
          Feed(n)
    \/ SendHeartbeat(1)
    \/ HeartbeatReceived(1)
    \/ HeartbeatTimeout(1)

SpecReader == InitReader /\ [][NextReader]_vars

\* ======================================== connection2.MessageDispatcher
\* The conversations handed to this dispatcher are of three kinds: one that
\* is answered once, one that streams into an iterator, and a persistent
\* subscription.
Kind(c) ==
    IF c % 3 = 1 THEN "scalar"
    ELSE IF c % 3 = 2 THEN "subscription"
    ELSE "iterator"

\* The ReplyActions that end a conversation (is_complete turns true).
TerminalActions ==
    {"CompleteScalar", "CompleteError", "CompleteIterator", "RaiseToIterator",
     "RaiseToSubscription", "FinishSubscription"}

\* Conversation.respond_to(message): the frames the server sends name the
\* ReplyAction the conversation answers them with.
respond_to(m) == m.command

InV2Map(c) == c \in SeqToSet(v2_conversations)

\* enqueue_conversation(convo), called by a client for a conversation it
\* has not handed over before.
enqueue_conversation(c) ==
    /\ c \in Conversations
    /\ v2_result[c] = "none"
    /\ Len(v2_output) < MaxQueue
    /\ v2_result' = [v2_result EXCEPT ![c] = "pending"]
    /\ v2_conversations' = MapInsert(v2_conversations, c)
    /\ v2_output' = IF v2_connected THEN Append(v2_output, Frame(c, "start"))
                    ELSE v2_output
    /\ UNCHANGED <<observerVars, connectorVars,
                   policyVars, protocolVars, dispatcherVars,
                   conversationVars, frames_sent, heartbeats_sent, readerVars,
                   v2_connected, v2_input, v2_dispatch_loop, v2_complete>>

\* for (conversation, future) in self.active_conversations.values():
\*     await self.output.put(conversation.start())
RECURSIVE V2Replay(_, _)
V2Replay(convs, oq) ==
    IF convs = <<>> THEN oq
    ELSE V2Replay(Tail(convs), Append(oq, Frame(Head(convs), "start")))

\* The connector's connected event calls start, which runs
\* _process_messages up to its first wait on the inbound queue.
V2Start ==
    /\ v2_dispatch_loop # "running"
    /\ Len(v2_output) + Len(v2_conversations) <= MaxQueue
    /\ v2_dispatch_loop' = "running"
    /\ v2_connected' = TRUE
    /\ v2_output' = V2Replay(v2_conversations, v2_output)
    /\ UNCHANGED <<observerVars, connectorVars,
                   policyVars, protocolVars, dispatcherVars,
                   conversationVars, frames_sent, heartbeats_sent, readerVars,
                   v2_input, v2_conversations, v2_result, v2_complete>>

\* The connector's disconnected event calls stop.
V2Stop ==
    /\ v2_dispatch_loop # "none"
    /\ v2_connected' = FALSE
    /\ v2_dispatch_loop' = "cancelled"
    /\ UNCHANGED <<observerVars, connectorVars,
                   policyVars, protocolVars, dispatcherVars,
                   conversationVars, frames_sent, heartbeats_sent, readerVars,
                   v2_input, v2_output, v2_conversations, v2_result,
                   v2_complete>>

\* connection2.MessageWriter takes the frames off the outbound queue.
V2Write ==
    /\ v2_connected
    /\ v2_output # <<>>
    /\ v2_output' = <<>>
    /\ UNCHANGED <<observerVars, connectorVars,
                   policyVars, protocolVars, dispatcherVars,
                   conversationVars, frames_sent, heartbeats_sent, readerVars,
                   v2_connected, v2_input, v2_conversations, v2_result,
                   v2_dispatch_loop, v2_complete>>

\* What the server may send about conversation c: the first answer while
\* the result is pending (again after a replayed start), then more events
\* or the end, and events that were under way when the conversation ended.
ServerMaySend(c) ==
    IF v2_result[c] = "none" THEN {}
    ELSE IF Kind(c) = "scalar" THEN {"CompleteScalar", "CompleteError"}
    ELSE IF Kind(c) = "iterator"
    THEN IF v2_result[c] = "pending" THEN {"BeginIterator", "CompleteError"}
         ELSE IF v2_complete[c] THEN {"YieldToIterator"}
         ELSE {"BeginIterator", "YieldToIterator", "CompleteIterator",
               "RaiseToIterator"}
    ELSE IF v2_result[c] = "pending" THEN {"BeginPersistentSubscription"}
         ELSE IF v2_complete[c] THEN {"YieldToSubscription"}
         ELSE {"BeginPersistentSubscription", "YieldToSubscription",
               "RaiseToSubscription", "FinishSubscription"}

\* connection2.MessageReader puts a decoded message on the inbound queue.
V2Receive(m) ==
    /\ v2_connected
    /\ Len(v2_input) < MaxInbound
    /\ \/ m = Frame(ServerHeartbeatId, "HeartbeatRequest")
       \/ /\ m.conversation_id \in Conversations
          /\ m.command \in ServerMaySend(m.conversation_id)
    /\ v2_input' = Append(v2_input, m)
    /\ UNCHANGED <<observerVars, connectorVars,
                   policyVars, protocolVars, dispatcherVars,
                   conversationVars, frames_sent, heartbeats_sent, readerVars,
                   v2_connected, v2_output, v2_conversations, v2_result,
                   v2_dispatch_loop, v2_complete>>

V2Messages ==
    {Frame(ServerHeartbeatId, "HeartbeatRequest")}
    \cup {Frame(c, a) : c \in Conversations,
                        a \in TerminalActions
                              \cup {"BeginIterator", "YieldToIterator",
                                    "BeginPersistentSubscription",
                                    "YieldToSubscription"}}

\* The actions after which _process_messages deletes the entry.
V2Removes(action) ==
    action \in {"CompleteScalar", "CompleteError", "CompleteIterator",
                "RaiseToIterator"}

\* What the branch for the action does to the future of the map entry, and
\* whether the loop goes on: set_result and set_exception raise unless the
\* future is pending, result() raises while it is pending, and awaiting a
\* pending future never returns here, since only this loop resolves it.
V2Future(action, fut) ==
    IF action \in {"CompleteScalar", "BeginIterator",
                   "BeginPersistentSubscription"}
    THEN IF fut = "pending" THEN "done" ELSE "raise"
    ELSE IF action = "CompleteError"
    THEN IF fut = "pending" THEN "error" ELSE "raise"
    ELSE IF action \in {"YieldToIterator", "CompleteIterator",
                        "RaiseToIterator"}
    THEN IF fut = "done" THEN fut ELSE "raise"
    ELSE IF fut = "pending" THEN "block"
    ELSE IF fut = "done" THEN fut
    ELSE "raise"

\* One iteration of the loop of _process_messages, for the message at the
\* head of the inbound queue.
V2Process ==
    /\ v2_dispatch_loop = "running"
    /\ v2_input # <<>>
    /\ Len(v2_output) < MaxQueue
    /\ LET m == Head(v2_input)
           c == m.conversation_id
           action == respond_to(m)
           fut == V2Future(action, v2_result[c])
       IN  /\ v2_input' = Tail(v2_input)
           /\ IF m.command = "HeartbeatRequest"
              THEN /\ v2_conversations' = MapInsert(v2_conversations, c)
                   /\ v2_output' =
                         IF v2_connected
                         THEN Append(v2_output, Frame(c, "start"))
                         ELSE v2_output
                   /\ UNCHANGED <<v2_result, v2_complete, v2_dispatch_loop>>
              ELSE IF ~InV2Map(c)
              THEN UNCHANGED <<v2_conversations, v2_output, v2_result,
                               v2_complete, v2_dispatch_loop>>
              ELSE /\ v2_complete' =
                         [v2_complete EXCEPT
                            ![c] = @ \/ action \in TerminalActions]
                   /\ v2_dispatch_loop' =
                         IF fut = "raise" THEN "failed"
                         ELSE IF fut = "block" THEN "blocked"
                         ELSE "running"
                   /\ v2_result' =
                         IF fut \in {"raise", "block"} THEN v2_result
                         ELSE [v2_result EXCEPT ![c] = fut]
                   /\ v2_conversations' =
                         IF fut \notin {"raise", "block"} /\ V2Removes(action)
                         THEN Remove(v2_conversations, c)
                         ELSE v2_conversations
                   /\ UNCHANGED v2_output
    /\ UNCHANGED <<observerVars, connectorVars,
                   policyVars, protocolVars, dispatcherVars,
                   conversationVars, frames_sent, heartbeats_sent, readerVars,
                   v2_connected>>

InitV2 ==
    /\ retries_per_node = 0
    /\ EngineIdle
    /\ ReaderIdle
    /\ V2Idle

NextV2 ==
    \/ \E c \in Conversations : enqueue_conversation(c)
    \/ V2Start
    \/ V2Stop
    \/ V2Write
    \/ \E m \in V2Messages : V2Receive(m)
    \/ V2Process

SpecV2 == InitV2 /\ [][NextV2]_vars

\* ================================================================ claims
\* The frames a step puts on the outbound queue of connection p.
Put(p) ==
    SubSeq(output_queue'[p], Len(output_queue[p]) + 1, Len(output_queue'[p]))

Appends(p) ==
    /\ Len(output_queue'[p]) >= Len(output_queue[p])
    /\ SubSeq(output_queue'[p], 1, Len(output_queue[p])) = output_queue[p]

\* C1: when the connector handles HandleConnectionOpened for connection p,
\* the frames put on p's outbound queue are start frames, one for each
\* conversation in the dispatcher's map and none for any other conversation.
C1_ReplayOncePerAttach ==
    [][\A p \in Protocols : OnTransportReceived(p) =>
          /\ Appends(p)
          /\ Len(Put(p)) = Len(active_conversations)
          /\ \A c \in Conversations :
                Count(Put(p), Frame(c, "start")) = IF InMap(c) THEN 1 ELSE 0
          /\ \A q \in Protocols \ {p} : output_queue'[q] = output_queue[q]
     ]_vars

\* Two conversations, first sent on connection 1, replayed on connection 2.
C1_Witness ==
    /\ active_protocol = 2
    /\ Len(active_conversations) = 2
    /\ \A c \in SeqToSet(active_conversations) :
          /\ start_log[c] = {1, 2}
          /\ Count(output_queue[2], Frame(c, "start")) = 1

\* C2: handling HandleConnectionClosed or HandleConnectionFailed leaves the
\* dispatcher's map as it was and touches no conversation's result handle.
C2_LossKeepsConversations ==
    [][OnTransportLost =>
          /\ active_conversations' = active_conversations
          /\ result' = result
          /\ is_complete' = is_complete
     ]_vars

\* The latest connection is lost, its loss has been handled (Connect is
\* queued again) and a conversation is still tracked and pending.
C2_Witness ==
    /\ connection_counter = 2
    /\ sock[2] = "lost"
    /\ ctrl_queue # <<>>
    /\ ctrl_queue[Len(ctrl_queue)].command = "Connect"
    /\ \E c \in Tracked : InMap(c) /\ result[c] = "pending"

\* C3: start_conversation leaves the conversation in the map exactly if it
\* is not one-way, no one-way conversation is ever in the map, and with a
\* transport attached (the active protocol's queue is the dispatcher's
\* output) the start frame is put on that transport's outbound queue.
C3_StartConversation ==
    /\ [](\A c \in OneWayConvs : ~InMap(c))
    /\ [](active_protocol # None => output = active_protocol)
    /\ [][\A c \in Conversations : start_conversation(c) =>
            /\ (c \in SeqToSet(active_conversations')) <=> (c \notin OneWayConvs)
            /\ output # None =>
                  /\ Appends(output)
                  /\ Put(output) = <<Frame(c, "start")>>
       ]_vars

\* A one-way conversation was started with a transport attached: its start
\* frame is on the queue and it is not tracked, next to a tracked one.
C3_Witness ==
    /\ active_protocol # None
    /\ \E c \in OneWayConvs :
          /\ c \in started
          /\ ~InMap(c)
          /\ Count(output_queue[active_protocol], Frame(c, "start")) = 1
    /\ \E c \in Tracked : InMap(c)

C5_DispatchById ==
    [][\A p \in Protocols : DispatchPump(p) =>
          LET id == Head(input_queue[p]).conversation_id
          IN  IF InMap(id)
              THEN responses' = [responses EXCEPT ![id] = @ + 1]
              ELSE /\ responses' = responses
                   /\ active_conversations' = active_conversations
                   /\ output_queue' = output_queue
                   /\ result' = result
                   /\ is_complete' = is_complete
     ]_vars

\* A frame came in and was dispatched while another conversation was
\* tracked, and no conversation was asked to respond.
C5_Witness ==
    /\ frames_sent = 1
    /\ \A p \in Protocols : input_queue[p] = <<>>
    /\ \A c \in Conversations : responses[c] = 0
    /\ active_conversations # <<>>

\* C6: the dispatcher of connection2 removes a conversation from the map
\* exactly when the reply to the dispatched frame is terminal; after a
\* non-terminal reply the conversation stays tracked, and a complete
\* conversation is not replayed when the dispatcher starts again.
C6_RemovesExactlyOnTerminal ==
    [][/\ V2Process =>
            LET m == Head(v2_input)
                c == m.conversation_id
            IN  (m.command # "HeartbeatRequest" /\ InV2Map(c)
                   /\ v2_dispatch_loop' = "running")
                    => (c \notin SeqToSet(v2_conversations')
                          <=> respond_to(m) \in TerminalActions)
       /\ V2Start =>
            \A c \in Conversations :
               v2_complete[c]
                  => Count(v2_output', Frame(c, "start"))
                        = Count(v2_output, Frame(c, "start"))]_vars

\* What the reader emits for frame F, and the states in which the read pump
\* will decode no more: every byte was fed, or the pump left its loop.
Emitted(F) == InboundMessage(F.conversation_id, F.cmd, F.payload)
AllWellFormed == \A i \in DOMAIN fed : fed[i] \in WellFormed
ReaderStopped == stream = <<>> \/ read_loop # "running"

\* C7: for any sequence of well-formed frames and any partition of their
\* encoded bytes into chunks, once the reader has been fed the chunks it has
\* emitted exactly those frames, in order.
C7_ChunkingIndependence ==
    (AllWellFormed /\ ReaderStopped)
        => received = [i \in DOMAIN fed |-> Emitted(fed[i])]

\* C8 (as stated): decoding the bytes of encode(F) emits exactly one frame,
\* and it equals F in every field: length, command, flags, conversation id
\* and payload.
C8_RoundTripEveryField ==
    (Len(fed) = 1 /\ AllWellFormed /\ stream = <<>>)
        => /\ Len(received) = 1
           /\ received[1].command = fed[1].cmd
           /\ received[1].conversation_id = fed[1].conversation_id
           /\ received[1].payload = fed[1].payload
           /\ "flags" \in DOMAIN received[1]
           /\ received[1].flags = fed[1].flags
           /\ "length" \in DOMAIN received[1]
           /\ received[1].length = fed[1].length

\* C8 (amended): decoding the bytes of encode(F), however they are chunked,
\* emits nothing before the last byte and then exactly one message, whose
\* command, conversation id and payload are those of F. The message has no
\* other field: the flags of F stay in the reader.
C8_RoundTrip ==
    (Len(fed) = 1 /\ AllWellFormed)
        => IF stream = <<>>
           THEN /\ received = <<Emitted(fed[1])>>
                /\ DOMAIN received[1] =
                     {"conversation_id", "command", "payload"}
                /\ flags = fed[1].flags
           ELSE received = <<>>

C8_Witness ==
    /\ Len(fed) = 1
    /\ AllWellFormed
    /\ fed[1].flags = 1
    /\ Len(fed[1].payload) = MaxPayload
    /\ stream = <<>>
    /\ Len(received) = 1
    /\ Len(input_queue[1]) = 1

\* C9: once the reader has a complete header whose length field is below
\* HEADER_LENGTH and will decode no more, the read pump has ended with an
\* error and the connector has been told of a connection failure.
C9_ShortLengthIsFatal ==
    (header_bytes_required = 0 /\ length < HEADER_LENGTH /\ ReaderStopped)
        => /\ read_loop = "failed"
           /\ \E i \in DOMAIN ctrl_queue :
                 ctrl_queue[i].command = "HandleConnectionFailed"

C12_StateSequence ==
    /\ state = "Begin"
    /\ [][\/ state = "Begin" /\ state' = "Connecting"
          \/ state = "Connecting" /\ state' \in {"Connected", "Stopping"}
          \/ state = "Connected" /\ state' \in {"Connecting", "Stopping"}
          \/ state = "Stopping" /\ state' = "Stopped"]_state

\* C13: handling HandleConnectionOpened for connection p in state
\* Connecting makes p the active transport, attaches the dispatcher to its
\* outbound queue, calls the connected observers with the node address once
\* the replay is on that queue, and leaves the state Connected.
C13_ConnectionOpened ==
    [][\A p \in Protocols :
          (OnTransportReceived(p) /\ state = "Connecting")
             => /\ active_protocol' = p
                /\ output' = p
                /\ connected_calls' =
                      Append(connected_calls,
                             [address |-> target_node, replayed |-> TRUE])
                /\ state' = "Connected"]_vars

\* C14: handling HandleConnectionClosed or HandleConnectionFailed while a
\* transport is active leaves no pump of a lost transport running, calls
\* the disconnected observers once, and starts reconnecting: the state is
\* Connecting and a Connect is queued, after an error as after a close.
C14_ConnectionLost ==
    [][(OnTransportLost /\ active_protocol # None)
          => /\ \A p \in Protocols :
                   sock[p] = "lost"
                      => \A k \in DOMAIN pumps'[p] : pumps'[p][k] # "running"
             /\ disconnected_calls' = disconnected_calls + 1
             /\ state' = "Connecting"
             /\ ctrl_queue'[Len(ctrl_queue')].command = "Connect"]_vars

\* C15: a handler that reconnects for the last known node n queues a
\* Connect with no target (discovery runs again) when n is absent; a
\* Connect for n, with no node marked failed, when should_retry(n) holds;
\* and otherwise marks n failed and queues a Connect with no target. With
\* retries_per_node = 0 a failed dial is always followed by discovery.
C15_ReconnectPolicy ==
    [][(OnTransportLost \/ OnConnectFailed)
          => LET n == target_node
                 connect == ctrl_queue'[Len(ctrl_queue')]
             IN  /\ connect.command = "Connect"
                 /\ IF n = None
                    THEN connect.data = None /\ failed_nodes' = failed_nodes
                    ELSE IF should_retry(n, failures')
                    THEN connect.data = n /\ failed_nodes' = failed_nodes
                    ELSE /\ connect.data = None
                         /\ failed_nodes' = failed_nodes \cup {n}
                 /\ (retries_per_node = 0 /\ OnConnectFailed /\ n # None)
                       => connect.data = None]_vars

\* A Connect from discovery is waiting after node 1, the only node tried,
\* was marked failed under retries_per_node = 0.
C15_Witness ==
    /\ retries_per_node = 0
    /\ failed_nodes = {1}
    /\ failures[1] > 0
    /\ ctrl_queue # <<>>
    /\ Head(ctrl_queue) = Instruction("Connect", None)

\* C16: whenever a stop of the connector completes (the control loop
\* handling HandleConnectorFailed, or a close by the client), no protocol is
\* active any more, the stopped observers are invoked once more with the
\* optional error, the control loop has ended, and the connector is left in
\* state Stopped.
C16_StopLeavesStopped ==
    [][(OnConnectorFailed \/ ClientCloseEnds
            \/ (ClientClose /\ active_protocol = None))
          => /\ active_protocol' = None
             /\ Len(stopped_calls') = Len(stopped_calls) + 1
             /\ run_loop' # "running"
             /\ state' = "Stopped"]_vars

\* C17: when discovery fails while a Connect with no target is handled, no
\* connection is dialled and HandleConnectorFailed is queued with the error;
\* handling HandleConnectorFailed stops the connector (no active protocol,
\* control loop ended) and invokes the stopped observers with that error,
\* which is not null.
C17_DiscoveryFailureStops ==
    [][/\ (OnConnect(None) /\ Nodes \ failed_nodes = {})
            => /\ UNCHANGED <<connection_counter, sock, pumps>>
               /\ ctrl_queue'[Len(ctrl_queue')].command
                     = "HandleConnectorFailed"
               /\ ctrl_queue'[Len(ctrl_queue')].data # None
       /\ OnConnectorFailed
            => /\ Head(ctrl_queue).data # None
               /\ stopped_calls'
                     = Append(stopped_calls, Head(ctrl_queue).data)
               /\ active_protocol' = None
               /\ run_loop' # "running"]_vars

\* Discovery has failed with every node marked failed, and the stopped
\* observers were invoked with the error by the control loop's stop.
C17_Witness ==
    /\ failed_nodes = Nodes
    /\ stopped_calls # <<>>
    /\ stopped_calls[Len(stopped_calls)] # None
    /\ run_loop = "cancelled"
    /\ state = "Stopping"

\* C18: whenever a stop of the connector completes, every tracked
\* conversation in the dispatcher's map has its result handle completed: none
\* is left pending after the stop.
C18_StopCompletesResults ==
    [][(OnConnectorFailed \/ ClientCloseEnds
            \/ (ClientClose /\ active_protocol = None))
          => \A c \in Tracked : InMap(c) => result'[c] # "pending"]_vars

\* C19: a tracked conversation passed to start_conversation whose result is
\* pending eventually has its result completed (resolved, failed or
\* cancelled), unless the model's caps on connections or on server frames
\* are reached first.
C19_EveryConversationEnds ==
    \A c \in Tracked :
        (c \in started /\ result[c] = "pending")
            ~> \/ result[c] # "pending"
               \/ connection_counter = MaxConnections
               \/ frames_sent = MaxFrames

\* C20: heartbeat frames never reach the dispatcher: no heartbeat request
\* or response is ever on the inbound queue, and no entry of the
\* dispatcher's map is ever created for a heartbeat's id.
C20_HeartbeatsBypassDispatcher ==
    /\ \A i \in DOMAIN v2_input :
          v2_input[i].command \notin {"HeartbeatRequest", "HeartbeatResponse"}
    /\ ~InV2Map(ServerHeartbeatId)

\* What a step adds at the end of the control queue, if anything (the
\* control loop takes from the head in the same step at most).
Notified(command) ==
    /\ ctrl_queue' # ctrl_queue
    /\ ctrl_queue' # <<>>
    /\ ctrl_queue'[Len(ctrl_queue')].command = command
    /\ \/ SubSeq(ctrl_queue', 1, Len(ctrl_queue') - 1) = ctrl_queue
       \/ /\ ctrl_queue # <<>>
          /\ SubSeq(ctrl_queue', 1, Len(ctrl_queue') - 1) = Tail(ctrl_queue)

\* C21: a heartbeat cycle of connection p (from the request to the end of
\* the wait) ends either with the response received and heartbeat success
\* notified, or with the timeout and heartbeat failure notified, never
\* both; the connector is notified of a heartbeat outcome only by a cycle
\* ending in a running pump, so a cancelled pump notifies nothing; and a
\* HeartbeatRequest is put on the outbound queue only when no cycle is
\* open, always with the pacemaker's id.
C21_HeartbeatCycle ==
    [][/\ \A p \in Protocols :
             (pacemaker[p].waiting /\ ~pacemaker'[p].waiting)
                => /\ pumps[p].heartbeat = "running"
                   /\ \/ /\ pacemaker[p].fut = "done"
                         /\ Notified("HandleHeartbeatSuccess")
                         /\ ctrl_queue'[Len(ctrl_queue')].data
                               = HeartbeatId(p)
                      \/ /\ pacemaker[p].fut = "pending"
                         /\ Notified("HandleHeartbeatFailed")
       /\ (Notified("HandleHeartbeatSuccess")
             \/ Notified("HandleHeartbeatFailed"))
            => \E p \in Protocols :
                  /\ pumps[p].heartbeat = "running"
                  /\ pacemaker[p].waiting /\ ~pacemaker'[p].waiting
       /\ \A p \in Protocols :
             \A i \in DOMAIN Put(p) :
                Put(p)[i].command = "HeartbeatRequest"
                   => /\ Appends(p)
                      /\ ~pacemaker[p].waiting
                      /\ pacemaker'[p].waiting
                      /\ Put(p)[i].conversation_id = HeartbeatId(p)]_vars

\* A second request of connection 1 is awaited after one cycle ended with a
\* response and the success was handed to the connector.
C21_Witness ==
    /\ heartbeats_sent = 2
    /\ pacemaker[1].waiting
    /\ pacemaker[1].fut = "pending"
    /\ \E i \in DOMAIN ctrl_queue :
          ctrl_queue[i] = Instruction("HandleHeartbeatSuccess", HeartbeatId(1))

\* C22: when stop() of a transport is called its read, write, dispatch and
\* heartbeat pumps are cancelled: none of them goes on running; when the
\* wait for the four is over the socket is closed; and nothing changes the
\* pumps or reopens the socket of a transport that has been stopped, a
\* second stop() included.
C22_TransportStop ==
    [][/\ (ClientClose /\ active_protocol # None)
            => Ended(active_protocol, pumps')
       /\ ClientCloseEnds
            => /\ Ended(stop_task, pumps')
               /\ sock'[stop_task] # "open"
       /\ \A p \in Protocols :
             (Ended(p, pumps) /\ sock[p] \in {"closing", "lost"})
                => /\ pumps'[p] = pumps[p]
                   /\ sock'[p] # "open"]_vars

\* The commands issued and not handled yet, oldest first: those on the
\* control queue, then those whose put is still to run.
Issued == ctrl_queue \o [i \in DOMAIN put_tasks |-> put_tasks[i].msg]

\* C23: the control loop handles the commands one at a time in the order
\* they were issued: a step takes at most the oldest issued command away
\* and puts at most one new command behind all those issued before it.
C23_ControlFifo ==
    [][\/ Issued' = Issued
       \/ /\ Issued' # <<>>
          /\ Issued' = Append(Issued, Issued'[Len(Issued')])
       \/ /\ Issued # <<>>
          /\ \/ Issued' = Tail(Issued)
             \/ /\ Issued' # <<>>
                /\ Issued' = Append(Tail(Issued), Issued'[Len(Issued')])
      ]_vars

\* C24: the connector's state changes only in a step of the control loop
\* handling a command, that is a step in which the running loop takes the
\* instruction at the head of the control queue.
C24_StateChangesInLoop ==
    [][state' # state
          => /\ run_loop = "running"
             /\ ctrl_queue # <<>>
             /\ \/ ctrl_queue' = Tail(ctrl_queue)
                \/ /\ ctrl_queue' # <<>>
                   /\ ctrl_queue' = Append(Tail(ctrl_queue),
                                           ctrl_queue'[Len(ctrl_queue')])
      ]_vars

\* C25: on a reconnect (a transport made after another one was attached),
\* the dispatch pump of the new transport hands a frame to a tracked
\* conversation only after the connector has attached that transport, which
\* is when the tracked conversations are replayed onto its outbound queue.
C25_ReplayBeforeDispatch ==
    [][\A p \in Protocols :
          (/\ DispatchPump(p)
           /\ connected_calls # <<>>
           /\ InMap(Head(input_queue[p]).conversation_id))
             => output >= p]_vars

\* C26: the inbound queue of a connection changes only by a frame from the
\* wire joining it at the end or by the dispatch pump taking the frame at
\* its head, so frames are dispatched one at a time in the order they
\* arrived; and the step that takes a frame also finishes its handling: the
\* conversation has answered and what respond_to produced is on the
\* connection's outbound queue before the next frame is taken.
C26_DispatchInArrivalOrder ==
    [][\A p \in Protocols :
          \/ input_queue'[p] = input_queue[p]
          \/ /\ input_queue'[p] # <<>>
             /\ input_queue'[p]
                   = Append(input_queue[p],
                            input_queue'[p][Len(input_queue'[p])])
             /\ frames_sent' = frames_sent + 1
          \/ /\ input_queue[p] # <<>>
             /\ input_queue'[p] = Tail(input_queue[p])
             /\ LET m == Head(input_queue[p])
                    c == m.conversation_id
                IN  InMap(c)
                      => /\ responses'[c] = responses[c] + 1
                         /\ Appends(p)
                         /\ Put(p) = IF m.command = "final" THEN <<>>
                                     ELSE <<Frame(c, "next")>>]_vars

\* The first of two frames of connection 1 has been dispatched and
\* answered while the second one waits in the inbound queue.
C26_Witness ==
    /\ responses[1] = 1
    /\ input_queue[1] = <<Frame(1, "final")>>
    /\ Frame(1, "next") \in SeqToSet(output_queue[1])
    /\ InMap(1)

\* C27: when the client's connect() returns, the connected observers have
\* been invoked, and when its close() returns, the disconnected observers
\* have been invoked.
C27_ObserversBeforeReturn ==
    [][/\ ClientConnect => connected_calls' # <<>>
       /\ (ClientCloseEnds \/ (ClientClose /\ active_protocol = None))
            => disconnected_calls' > 0]_vars

\* C28: when the dispatch pump of connection p takes a frame that is a
\* protocol error for a tracked conversation c, only c fails: its result is
\* failed and it leaves the map, every other conversation keeps its result
\* and its place in the map, no socket changes, and the pumps of p, the
\* dispatch pump included, go on running.
C28_DispatchErrorIsLocal ==
    [][\A p \in Protocols :
          (/\ input_queue[p] # <<>>
           /\ input_queue'[p] = Tail(input_queue[p])
           /\ Head(input_queue[p]).command = "malformed"
           /\ InMap(Head(input_queue[p]).conversation_id))
             => LET c == Head(input_queue[p]).conversation_id
                IN  /\ result'[c] = "failed"
                    /\ c \notin SeqToSet(active_conversations')
                    /\ \A d \in Conversations \ {c} :
                          /\ result'[d] = result[d]
                          /\ (d \in SeqToSet(active_conversations'))
                                <=> InMap(d)
                    /\ sock' = sock
                    /\ pumps' = pumps]_vars

\* The conversations whose frames wait on the outbound queue of p.
Unwritten(p) ==
    {output_queue[p][i].conversation_id : i \in DOMAIN output_queue[p]}

\* What a socket write error leads to, for the conversations in `convs`:
\* the failing write leaves their results alone and leaves them in the
\* map; the transport reports a failed connection to the control loop;
\* handling that report invokes the disconnected observers once and queues
\* the next Connect without touching any result; and the transport that is
\* attached next gets the start frame of each of them on its own queue.
WriteErrorDemoted(convs) ==
    /\ \A p \in Protocols :
         (sock[p] = "open" /\ sock'[p] = "broken")
            => \A c \in Unwritten(p) \cap convs :
                  /\ result'[c] = "pending"
                  /\ c \in SeqToSet(active_conversations')
    /\ \A p \in Protocols :
         (sock[p] = "broken" /\ sock'[p] = "lost")
            => Notified("HandleConnectionFailed")
    /\ (ctrl_queue # <<>> /\ ctrl_queue' # ctrl_queue
          /\ Head(ctrl_queue).command = "HandleConnectionFailed")
            => /\ disconnected_calls' = disconnected_calls + 1
               /\ Notified("Connect")
               /\ result' = result
    /\ \A q \in Protocols :
         (output # q /\ output' = q)
            => \A c \in convs :
                  (c \in started /\ \E p \in Protocols :
                      p # q /\ p \in start_log[c] /\ sock[p] = "lost")
                     => /\ result'[c] = "pending"
                        /\ Count(output_queue'[q], Frame(c, "start")) = 1

\* C29 as stated: a socket write error in the write pump becomes a lost
\* transport (disconnected observers, reconnect), no result is touched, and
\* every conversation whose frame failed to be written, one-way or not, is
\* replayed on the successor transport.
C29_WriteErrorReplaysAll == [][WriteErrorDemoted(Conversations)]_vars

\* C29, amended: the same, for the conversations the dispatcher tracks. A
\* one-way conversation is not in the map, so its unwritten frame is lost.
C29_WriteErrorDemoted == [][WriteErrorDemoted(Tracked)]_vars

C29_Witness ==
    /\ \E c \in Tracked :
          /\ started = {c}
          /\ start_log[c] = {1, 2}
          /\ result[c] = "pending"
          /\ Count(output_queue[2], Frame(c, "start")) = 1
    /\ sock[1] = "lost"
    /\ output_queue[1] = <<>>
    /\ output = 2
    /\ disconnected_calls = 1

\* C30: the step that cancels the result handle of conversation c takes c
\* out of the dispatcher's map and changes nothing else: every other
\* conversation keeps its place in the map and its result, and no socket,
\* pump or queue of any transport changes. Afterwards c is not replayed: a
\* transport that is attached gets no start frame of a conversation whose
\* result handle is cancelled.
C30_CancelRemovesConversation ==
    [][/\ \A c \in Conversations :
            (result[c] = "pending" /\ result'[c] = "cancelled")
               => /\ c \notin SeqToSet(active_conversations')
                  /\ \A d \in Conversations \ {c} :
                        /\ result'[d] = result[d]
                        /\ (d \in SeqToSet(active_conversations'))
                              <=> InMap(d)
                  /\ UNCHANGED protocolVars
       /\ \A q \in Protocols :
            (output # q /\ output' = q)
               => \A c \in Conversations :
                     result[c] = "cancelled"
                        => Count(output_queue'[q], Frame(c, "start")) = 0
      ]_vars

\* C31: when the control loop handles Connect(n) for an explicit node n and
\* the dial fails, HandleConnectFailure is queued and the state stays
\* Connecting; when the failure of a dial to n is handled, the failure is
\* recorded against n, the Connect that is queued and the nodes marked
\* failed are what the reconnect policy gives for n, and the state stays
\* Connecting.
C31_ConnectFailure ==
    [][/\ \A n \in Nodes :
            (/\ Handling("Connect")
             /\ Head(ctrl_queue).data = n
             /\ connection_counter' = connection_counter + 1
             /\ sock' = sock)
               => /\ Notified("HandleConnectFailure")
                  /\ ctrl_queue'[Len(ctrl_queue')].data = n
                  /\ state = "Connecting" => state' = "Connecting"
       /\ \A n \in Nodes :
            (/\ Handling("HandleConnectFailure")
             /\ Head(ctrl_queue).data = n
             /\ ctrl_queue' # ctrl_queue
             /\ Len(ctrl_queue') <= Len(ctrl_queue))
               => /\ failures' = record_failure(n, failures)
                  /\ Notified("Connect")
                  /\ ctrl_queue'[Len(ctrl_queue')].data =
                        ReconnectTarget(n, failures')
                  /\ failed_nodes' = ReconnectMarks(n, failures')
                  /\ state = "Connecting" => state' = "Connecting"
      ]_vars

\* C32: a heartbeat failure that is handled by stopping a transport was
\* reported by the pacemaker of the transport that is stopped, the active
\* one; a failure reported by the pacemaker of another transport stops no
\* pump and closes no socket.
C32_StaleHeartbeatFailures ==
    [][\A p \in Protocols :
          (/\ Handling("HandleHeartbeatFailed")
           /\ Head(ctrl_queue).data = p
           /\ heartbeat_failures' # heartbeat_failures
           /\ p # active_protocol)
             => pumps' = pumps /\ sock' = sock]_vars

\* C33: in the step that makes a transport the active one, the connector's
\* count of consecutive heartbeat failures is zero afterwards.
C33_AttachStartsFromZero ==
    [][\A p \in Protocols :
          (active_protocol # p /\ active_protocol' = p)
             => heartbeat_failures' = 0]_vars

\* C34: the receipt of a HeartbeatResponse (a frame that reaches neither
\* the inbound nor the outbound queue) either completes the wait of a
\* pacemaker whose heartbeat is awaiting its reply, or is ignored: then no
\* pacemaker changes; in both cases nothing is queued for the connector and
\* every pump, the read pump included, keeps its status.
C34_UnexpectedHeartbeatResponse ==
    [][(frames_sent' = frames_sent + 1
          /\ UNCHANGED <<input_queue, output_queue>>)
          => /\ ctrl_queue' = ctrl_queue
             /\ put_tasks' = put_tasks
             /\ pumps' = pumps
             /\ \/ pacemaker' = pacemaker
                \/ \E p \in Protocols :
                      /\ pacemaker[p].fut = "pending"
                      /\ pacemaker' = [pacemaker EXCEPT ![p].fut = "done"]
      ]_vars

\* C35: when Connector.stop() completes (a close by the client, at once or
\* after the stop of the active transport has ended), no transport is left
\* with a running pump or an open socket, whether it was attached or only
\* dialled.
C35_StopLeavesNoTransport ==
    [][(ClientCloseEnds \/ (ClientClose /\ active_protocol = None))
          => \A p \in Protocols :
                /\ \A k \in DOMAIN pumps'[p] :
                      pumps'[p][k] \notin {"running", "draining"}
                /\ sock'[p] # "open"]_vars

\* C36: from the moment the state is Stopping it stays Stopping, and no
\* step discovers a node or dials a connection any more.
C36_StoppingIsFinal ==
    [][state = "Stopping"
          => /\ state' = "Stopping"
             /\ connection_counter' = connection_counter
             /\ target_node' = target_node]_vars

\* C37: the stopped observers have been invoked at most once, whatever
\* close() calls and connector failures have happened.
C37_StoppedAtMostOnce == Len(stopped_calls) <= 1

====
